---- MODULE Spec2Model ----
(***************************************************************************)
(* A model of the goroutine, channel, wait-group, mutex, defer and closure *)
(* demonstrations of the go-learnings repository.                          *)
(*                                                                         *)
(* Every demonstration function is transcribed statement by statement into *)
(* an instruction table (Code).  The actions below give the statements     *)
(* their Go semantics: one action per kind of statement.  Statements that  *)
(* touch nothing but the executing goroutine's own frame (registering a    *)
(* defer, calling and returning from a function, a loop over a local       *)
(* array) are executed together with the statement that precedes them      *)
(* (Norm); every statement that prints, synchronises or writes a variable  *)
(* is a step of its own.                                                   *)
(*                                                                         *)
(* The helper functions of the repository (divide, the nil-checking        *)
(* functions, the by-value functions, mapInts, filterInts, reduceInts,     *)
(* makeFunctions, factorial, fibonacci) are operators over an explicit     *)
(* memory; HelperSpec calls each of them on inputs from bounded sets.      *)
(***************************************************************************)
EXTENDS Integers, Sequences, FiniteSets, TLC

VARIABLES
    demo,       \* the demonstration function being run
    frames,     \* frames[g]: call stack of goroutine g (last = innermost)
    spawned,    \* goroutines created so far (0 is the caller of the demo)
    chans,      \* chans[c]: buffer, closed flag, parked senders/receivers
    wg,         \* sync.WaitGroup counter
    mu,         \* sync.Mutex: NoHolder or the goroutine holding it
    mem,        \* variables of the demonstration (locals and captured)
    sharedData, \* the []int of heapSharing
    out,        \* standard output: the lines printed so far
    cells,      \* heap cells holding the count captured by each counter closure
    exited,     \* the process has exited (main returned)
    hist,       \* history: wg.Add and wg.Done calls and statements so far, a panic
    closures,   \* the counter closures created: the cell each captured
    calls,      \* the calls made to the closures and what each returned
    ev,         \* the evaluation of one call of a helper function: input, memory, result
    globalMap,  \* var globalMap map[string]string
    mapHist     \* history: the calls that stored in globalMap, the maps made, a panic

vars == <<globalMap, mapHist, ev, closures, calls, demo, frames, spawned, chans, wg, mu, mem, sharedData, out, cells, exited, hist>>

----------------------------------------------------------------------------
(* Bounds *)

MaxCounters == 2
MaxCalls == 4
IntBits == 4      \* the width given to Go's int (64 in the program)
MaxNum == 3       \* float64 operands: numerators 0..MaxNum
MaxDen == 2       \* float64 operands: denominators 1..MaxDen
MaxCells == 2     \* variables of the caller that a pointer can point to
MaxLen == 3       \* the longest []int passed to mapInts, filterInts, reduceInts
MaxSpare == 1     \* the most capacity a []int has beyond its length
MaxFact == 7      \* factorial is called with -MaxFact..MaxFact
MaxFib == 15      \* fibonacci is called with -MaxFib..MaxFib

----------------------------------------------------------------------------
(* Program constants *)

StackWorkers == 5
IssueWorkers == 5
HeapWorkers == 3
ContentionWorkers == 10
DoneWorkers == 3

\* A wait loop that is one receive short.
DoneReceivesShort == DoneWorkers - 1

\* for i := 0; i < 3; i++ { <-done }
DoneReceives == 3
CounterIters == 5
SharedLen == 10
LocalArrayLen == 1000
SmallArrayLen == 100

MaxG == ContentionWorkers
G == 0..MaxG
NoHolder == -1

\* var globalMap map[string]string: the nil map, which has no entries
NilMap == [nil |-> TRUE, kv |-> [k \in {} |-> ""]]

\* no call has stored in globalMap
NoStores == [calls |-> <<>>, allocs |-> 0, panic |-> FALSE]

\* no helper function is being evaluated
Idle == [fn |-> "none", in |-> <<>>, st |-> "idle", ret |-> <<>>, mem |-> <<>>,
         stack |-> <<>>, steps |-> 0, out |-> <<>>, panic |-> FALSE]

----------------------------------------------------------------------------
(* Expressions and instructions *)

K(v) == [k |-> "const", v |-> v]
V(n) == [k |-> "var", n |-> n]
SD(i) == [k |-> "sd", i |-> i]
Mul(a, b) == [k |-> "mul", a |-> a, b |-> b]

RECURSIVE Eval(_, _, _)
Eval(e, m, sd) ==
    CASE e.k = "const" -> e.v
      [] e.k = "var" -> m[e.n]
      [] e.k = "sd" -> sd[Eval(e.i, m, sd) + 1]
      [] e.k = "mul" -> Eval(e.a, m, sd) * Eval(e.b, m, sd)

EvalAll(es, m, sd) == [i \in 1..Len(es) |-> Eval(es[i], m, sd)]

Printf(s, args) == [op |-> "print", s |-> s, args |-> args]
Send(c, e) == [op |-> "send", ch |-> c, e |-> e]
Recv(c, dst) == [op |-> "recv", ch |-> c, dst |-> dst, okdst |-> "_"]
RecvOk(c, dst, okdst) == [op |-> "recv", ch |-> c, dst |-> dst, okdst |-> okdst]
Close(c) == [op |-> "close", ch |-> c]
Go(g, fn, arg) == [op |-> "go", g |-> g, fn |-> fn, arg |-> arg]
Call(fn) == [op |-> "call", fn |-> fn]
Defer(ins) == [op |-> "defer", ins |-> ins]
Store(n, e) == [op |-> "store", n |-> n, e |-> e]
StoreIdx(i, e) == [op |-> "storeidx", i |-> i, e |-> e]
Incr(n) == [op |-> "incr", n |-> n]
MkCounter(dst) == [op |-> "mkcounter", dst |-> dst]
CallCounter(fnvar, dst) == [op |-> "callcounter", fn |-> fnvar, dst |-> dst]
Local(what) == [op |-> "local", what |-> what]
Goto(pc) == [op |-> "goto", to |-> pc]
WgAdd == [op |-> "add"]
WgDone == [op |-> "done"]
WgWait == [op |-> "wait"]
Lock == [op |-> "lock"]
Unlock == [op |-> "unlock"]
SelectCase(c, dst, to) == [ch |-> c, dst |-> dst, to |-> to]
Select(cases, dflt) == [op |-> "select", cases |-> cases, dflt |-> dflt]

RECURSIVE Flatten(_)
Flatten(ss) == IF ss = <<>> THEN <<>> ELSE Head(ss) \o Flatten(Tail(ss))

----------------------------------------------------------------------------
(* The demonstration functions, statement by statement.  A goroutine body  *)
(* func literal is named after its function: f_func1 is the first literal  *)
(* of f.  Goroutine ids are given in spawn order.                          *)

channelsSimple ==
    << Printf("3. CHANNELS:", <<>>),
       Go(1, "channels_func1", 0),
       Recv("ch1", "val1"),
       Printf("Received from ch1: %d", <<V("val1")>>),
       Recv("ch2", "val2"),
       Recv("ch2", "val3"),
       Recv("ch2", "val4"),
       Printf("Received from ch2: %s, %s, %s", <<V("val2"), V("val3"), V("val4")>>) >>

channels_func1 ==
    << Send("ch1", K(42)),
       Send("ch2", K("Hello")),
       Send("ch2", K("World")),
       Send("ch2", K("Go")) >>

channelsClosed ==
    << Send("ch3", K(1)),
       Send("ch3", K(2)),
       Close("ch3"),
       RecvOk("ch3", "val5", "ok"),
       Printf("Received: %d, ok: %t", <<V("val5"), V("ok")>>),
       RecvOk("ch3", "val6", "ok"),
       Printf("Received: %d, ok: %t", <<V("val6"), V("ok")>>),
       RecvOk("ch3", "val7", "ok"),
       Printf("Received: %d, ok: %t", <<V("val7"), V("ok")>>) >>

channelsSelect(base) ==
    << Go(2, "channels_func2", 0),
       Go(3, "channels_func3", 0),
       Select(<< SelectCase("ch4", "val", base + 4),
                 SelectCase("ch5", "val", base + 6) >>, base + 8),
       Printf("Received from ch4: %d", <<V("val")>>),
       Goto(base + 9),
       Printf("Received from ch5: %d", <<V("val")>>),
       Goto(base + 9),
       Printf("No value ready", <<>>) >>

channels ==
    LET head == channelsSimple \o channelsClosed
    IN  head \o channelsSelect(Len(head))

channels_func2 == << Send("ch4", K(1)) >>
channels_func3 == << Send("ch5", K(2)) >>

goroutinesSimple ==
    << Printf("4. GOROUTINES:", <<>>),
       Go(1, "goroutines_func1", 0),
       Go(2, "goroutines_func2", 1),
       Go(3, "goroutines_func3", 0),
       Recv("resultCh", "result"),
       Printf("Goroutine result: %d", <<V("result")>>) >>

goroutines_func1 == << Printf("Goroutine 1: Hello from goroutine!", <<>>) >>
goroutines_func2(id) == << Printf("Goroutine %d: Running", <<K(id)>>) >>
goroutines_func3 == << Send("resultCh", K(42)) >>

goroutines ==
    goroutinesSimple
    \o [k \in 1..DoneWorkers |-> Go(3 + k, "goroutines_func4", k - 1)]
    \o [k \in 1..DoneReceives |-> Recv("done", "_")]
    \o << Printf("All goroutines completed", <<>>) >>

\* A worker that never reports on done.
goroutines_func4NoSend(id) ==
    << Printf("Worker %d: Processing", <<K(id)>>) >>

goroutines_func4(id) ==
    << Printf("Worker %d: Processing", <<K(id)>>),
       Send("done", K(TRUE)) >>

\* stackPerGoroutine without its wg.Add(1).
stackPerGoroutineNoAdd ==
    << Printf("Stack per Goroutine:", <<>>) >>
    \o [k \in 1..StackWorkers |-> Go(k, "stackPerGoroutine_func1", k - 1)]
    \o << WgWait,
          Printf("Each goroutine has independent stack memory", <<>>) >>

stackPerGoroutine ==
    << Printf("Stack per Goroutine:", <<>>) >>
    \o Flatten([k \in 1..StackWorkers |->
                  << WgAdd, Go(k, "stackPerGoroutine_func1", k - 1) >>])
    \o << WgWait,
          Printf("Each goroutine has independent stack memory", <<>>) >>

stackPerGoroutine_func1(id) ==
    << Defer(WgDone),
       Printf("Goroutine %d: localVar=%d", <<K(id), Mul(K(id), K(100))>>) >>

heapSharing ==
    << Printf("Heap Sharing:", <<>>) >>
    \o Flatten([k \in 1..HeapWorkers |->
                  << WgAdd, Go(k, "heapSharing_func1", k - 1) >>])
    \o << WgWait,
          Printf("Heap memory can be shared between goroutines", <<>>) >>

heapSharing_func1(id) ==
    << Defer(WgDone),
       Lock,
       StoreIdx(K(id), Mul(K(id), K(10))),
       Printf("Goroutine %d: sharedData[%d]=%d", <<K(id), K(id), SD(K(id))>>),
       Unlock >>

memoryContention ==
    << Printf("Memory Contention:", <<>>),
       Local("start := time.Now()") >>
    \o Flatten([k \in 1..ContentionWorkers |->
                  << WgAdd, Go(k, "memoryContention_func1", 0) >>])
    \o << WgWait,
          Local("duration := time.Since(start)"),
          Printf("Concurrent heap allocation took: %v", <<>>),
          Printf("Contention occurs when multiple goroutines allocate heap memory", <<>>) >>

memoryContention_func1 ==
    << Defer(WgDone),
       Local("for j := 0; j < 1000; j++ { ptr := new(int); *ptr = j }") >>

goroutineMemoryIssues ==
    << Printf("Goroutine Memory Issues:", <<>>) >>
    \o Flatten([k \in 1..IssueWorkers |->
                  << WgAdd, Go(k, "goroutineMemoryIssues_func1", k - 1) >>])
    \o << WgWait >>

goroutineMemoryIssues_func1(id) ==
    << Defer(WgDone),
       Local("for j := range local { local[j] = id*1000 + j }"),
       Printf("Goroutine %d: %d elements", <<K(id), K(LocalArrayLen)>>) >>

goroutinePatterns ==
    << Printf("7. GOROUTINE AND CONCURRENCY PATTERNS:", <<>>),
       Store("x", K(42)),
       Go(1, "goroutinePatterns_func1", 0),
       Printf("HEAP: Goroutine capturing local variable", <<>>),
       Store("counter", K(0)),
       Go(2, "goroutinePatterns_func2", 0),
       Printf("HEAP: Goroutine with closure", <<>>),
       Go(3, "goroutinePatterns_func3", 0),
       Recv("ch", "value"),
       Printf("Goroutine with channel: %d", <<V("value")>>),
       Printf("HEAP: Goroutine with channel", <<>>) >>

goroutinePatterns_func1 ==
    << Printf("Goroutine with captured variable: %d", <<V("x")>>) >>

goroutinePatterns_func2 ==
    Flatten([k \in 1..CounterIters |->
              << Incr("counter"),
                 Printf("Goroutine counter: %d", <<V("counter")>>) >>])

goroutinePatterns_func3 == << Send("ch", K(42)) >>

closureAllocationExamples ==
    << Printf("7. CLOSURE ALLOCATION PATTERNS:", <<>>),
       MkCounter("counterFn"),
       CallCounter("counterFn", "ret"),
       Printf("Counter 1: %d (heap)", <<V("ret")>>),
       CallCounter("counterFn", "ret"),
       Printf("Counter 2: %d (heap)", <<V("ret")>>),
       CallCounter("counterFn", "ret"),
       Printf("Counter 3: %d (heap)", <<V("ret")>>),
       Printf("Closures that capture variables escape to heap", <<>>),
       Store("factor", K(5)),
       Printf("Multiplier(3): %d (heap)", <<Mul(K(3), V("factor"))>>),
       Printf("Multiplier(4): %d (heap)", <<Mul(K(4), V("factor"))>>),
       Go(1, "closureAllocationExamples_func1", 0) >>

closureAllocationExamples_func1 ==
    << Local("for i := range local { local[i] = i }"),
       Printf("Goroutine local array: %d elements (stack)", <<K(SmallArrayLen)>>) >>

deferStatements ==
    << Printf("9. DEFER STATEMENTS:", <<>>),
       Printf("Start", <<>>),
       Defer(Printf("Deferred 1", <<>>)),
       Defer(Printf("Deferred 2", <<>>)),
       Defer(Printf("Deferred 3", <<>>)),
       Printf("End", <<>>),
       Call("deferExample"),
       Call("deferWithParameters") >>

deferExampleInline ==
    << Printf("Defer example start", <<>>),
       Printf("Defer example end", <<>>),
       Printf("Defer example middle", <<>>) >>

deferExample ==
    << Printf("Defer example start", <<>>),
       Defer(Printf("Defer example end", <<>>)),
       Printf("Defer example middle", <<>>) >>

deferWithParameters ==
    << Store("x", K(10)),
       Defer(Printf("Deferred value: %d", <<V("x")>>)),
       Store("x", K(20)),
       Printf("Current value: %d", <<V("x")>>) >>

CodeOf(fn, arg) ==
    CASE fn = "channelsSimple" -> channelsSimple
      [] fn = "channels" -> channels
      [] fn = "channels_func1" -> channels_func1
      [] fn = "channels_func2" -> channels_func2
      [] fn = "channels_func3" -> channels_func3
      [] fn = "goroutinesSimple" -> goroutinesSimple
      [] fn = "goroutines" -> goroutines
      [] fn = "goroutines_func1" -> goroutines_func1
      [] fn = "goroutines_func2" -> goroutines_func2(arg)
      [] fn = "goroutines_func3" -> goroutines_func3
      [] fn = "goroutines_func4" -> goroutines_func4(arg)
      [] fn = "stackPerGoroutine" -> stackPerGoroutine
      [] fn = "stackPerGoroutine_func1" -> stackPerGoroutine_func1(arg)
      [] fn = "heapSharing" -> heapSharing
      [] fn = "heapSharing_func1" -> heapSharing_func1(arg)
      [] fn = "memoryContention" -> memoryContention
      [] fn = "memoryContention_func1" -> memoryContention_func1
      [] fn = "goroutineMemoryIssues" -> goroutineMemoryIssues
      [] fn = "goroutineMemoryIssues_func1" -> goroutineMemoryIssues_func1(arg)
      [] fn = "goroutinePatterns" -> goroutinePatterns
      [] fn = "goroutinePatterns_func1" -> goroutinePatterns_func1
      [] fn = "goroutinePatterns_func2" -> goroutinePatterns_func2
      [] fn = "goroutinePatterns_func3" -> goroutinePatterns_func3
      [] fn = "closureAllocationExamples" -> closureAllocationExamples
      [] fn = "closureAllocationExamples_func1" -> closureAllocationExamples_func1
      [] fn = "deferStatements" -> deferStatements
      [] fn = "deferExample" -> deferExample
      [] fn = "deferWithParameters" -> deferWithParameters

FnNames ==
    { "channelsSimple", "channels", "channels_func1", "channels_func2",
      "channels_func3", "goroutinesSimple", "goroutines", "goroutines_func1",
      "goroutines_func2", "goroutines_func3", "goroutines_func4",
      "stackPerGoroutine", "stackPerGoroutine_func1", "heapSharing",
      "heapSharing_func1", "memoryContention", "memoryContention_func1",
      "goroutineMemoryIssues", "goroutineMemoryIssues_func1",
      "goroutinePatterns", "goroutinePatterns_func1", "goroutinePatterns_func2",
      "goroutinePatterns_func3", "closureAllocationExamples",
      "closureAllocationExamples_func1", "deferStatements", "deferExample",
      "deferWithParameters" }

\* The argument a goroutine body is started with: the loop index, below 5.
Args == 0..4

CodeTable == [fa \in FnNames \X Args |-> CodeOf(fa[1], fa[2])]

Code(fn, arg) == CodeTable[<<fn, arg>>]

Demos ==
    { "channelsSimple", "channels", "goroutinesSimple", "goroutines",
      "stackPerGoroutine", "heapSharing", "memoryContention",
      "goroutineMemoryIssues", "goroutinePatterns",
      "closureAllocationExamples", "deferStatements" }

----------------------------------------------------------------------------
(* Channels and variables *)

ChanNames == {"ch1", "ch2", "ch3", "ch4", "ch5", "resultCh", "done", "ch"}

\* Capacities with done made a buffered channel.
ChanCapDoneBuffered(c) ==
    CASE c = "ch2" -> 3
      [] c = "ch3" -> 2
      [] c = "ch" -> 1
      [] c = "done" -> 3
      [] OTHER -> 0

ChanCap(c) ==
    CASE c = "ch2" -> 3
      [] c = "ch3" -> 2
      [] c = "ch" -> 1
      [] OTHER -> 0

ChanZero(c) ==
    CASE c = "ch2" -> ""
      [] c = "done" -> FALSE
      [] OTHER -> 0

IntVars == {"val1", "val5", "val6", "val7", "val", "result", "x", "counter",
            "value", "counterFn", "ret", "factor"}
StrVars == {"val2", "val3", "val4"}
BoolVars == {"ok"}
VarNames == IntVars \cup StrVars \cup BoolVars

VarZero(n) == IF n \in StrVars THEN "" ELSE IF n \in BoolVars THEN FALSE ELSE 0

EmptyChan == [buf |-> <<>>, closed |-> FALSE, sendq |-> <<>>, recvq |-> <<>>]

----------------------------------------------------------------------------
(* Frames: call, return, defer *)

NewFrame(fn, arg) == [fn |-> fn, arg |-> arg, pc |-> 1, defers |-> <<>>]

Top(fs) == fs[Len(fs)]
Pop(fs) == SubSeq(fs, 1, Len(fs) - 1)
SetTop(fs, f) == [fs EXCEPT ![Len(fs)] = f]

InBody(f) == f.pc <= Len(Code(f.fn, f.arg))

\* Arguments left unevaluated until the deferred call runs.
DeferArgsLate(ins, m, sd) == ins

\* The arguments of a deferred call are evaluated by the defer statement.
DeferArgs(ins, m, sd) ==
    IF ins.op = "print"
    THEN [ins EXCEPT !.args = [i \in 1..Len(ins.args) |-> K(Eval(ins.args[i], m, sd))]]
    ELSE ins

\* Deferred calls kept in a queue: first registered, first run.
PushDeferFIFO(defers, call) == <<call>> \o defers

\* A defer statement pushes the call on the frame's stack of deferred calls.
PushDefer(defers, call) == Append(defers, call)

\* The deferred call that runs next when the function returns.
NextDeferred(defers) == defers[Len(defers)]
PopDeferred(defers) == SubSeq(defers, 1, Len(defers) - 1)

\* The statement goroutine-local steps lead to: run defer statements, calls,
\* returns and local computation until the next statement of the other kinds.
RECURSIVE Norm(_, _, _)
Norm(fs, m, sd) ==
    IF fs = <<>> THEN <<>>
    ELSE LET f == Top(fs) IN
         IF ~InBody(f)
         THEN IF f.defers = <<>> THEN Norm(Pop(fs), m, sd) ELSE fs
         ELSE LET ins == Code(f.fn, f.arg)[f.pc] IN
              CASE ins.op = "defer" ->
                     Norm(SetTop(fs, [f EXCEPT !.pc = @ + 1,
                                               !.defers = PushDefer(@, DeferArgs(ins.ins, m, sd))]),
                          m, sd)
                [] ins.op = "call" ->
                     Norm(Append(SetTop(fs, [f EXCEPT !.pc = @ + 1]), NewFrame(ins.fn, 0)),
                          m, sd)
                [] ins.op = "local" ->
                     Norm(SetTop(fs, [f EXCEPT !.pc = @ + 1]), m, sd)
                [] ins.op = "goto" ->
                     Norm(SetTop(fs, [f EXCEPT !.pc = ins.to]), m, sd)
                [] OTHER -> fs

\* The statement a goroutine executes next: of the body, or, the body done,
\* the deferred call on top of the stack.
CurOf(fs) ==
    LET f == Top(fs) IN
    IF InBody(f) THEN Code(f.fn, f.arg)[f.pc] ELSE NextDeferred(f.defers)

\* Move past the current statement.
Advance(fs) ==
    LET f == Top(fs) IN
    IF InBody(f) THEN SetTop(fs, [f EXCEPT !.pc = @ + 1])
    ELSE SetTop(fs, [f EXCEPT !.defers = PopDeferred(@)])

JumpTo(fs, to) == SetTop(fs, [Top(fs) EXCEPT !.pc = to])

Parked(g) ==
    \E c \in ChanNames :
        \/ \E i \in 1..Len(chans[c].sendq) : chans[c].sendq[i].g = g
        \/ \E i \in 1..Len(chans[c].recvq) : chans[c].recvq[i].g = g

Returned(g) == g \in spawned /\ frames[g] = <<>>

Runnable(g) == g \in spawned /\ frames[g] # <<>> /\ ~Parked(g) /\ ~exited

At(g, op) == Runnable(g) /\ CurOf(frames[g]).op = op

Cur(g) == CurOf(frames[g])

\* g moves past its statement; the variables are m and sd afterwards.
Step1(g, m, sd) == [frames EXCEPT ![g] = Norm(Advance(frames[g]), m, sd)]

\* g and the goroutine h it wakes both move past their statements.
Step2(g, h, m, sd) ==
    [frames EXCEPT ![g] = Norm(Advance(frames[g]), m, sd),
                   ![h] = Norm(Advance(frames[h]), m, sd)]

SetVar(m, n, v) == IF n = "_" THEN m ELSE [m EXCEPT ![n] = v]

----------------------------------------------------------------------------
(* Initial state: the demonstration has been called, nothing has run. *)

Init ==
    /\ demo \in Demos
    /\ mem = [n \in VarNames |-> VarZero(n)]
    /\ sharedData = [i \in 1..SharedLen |-> 0]
    /\ frames = [g \in G |-> IF g = 0
                              THEN Norm(<<NewFrame(demo, 0)>>, mem, sharedData)
                              ELSE <<>>]
    /\ spawned = {0}
    /\ chans = [c \in ChanNames |-> EmptyChan]
    /\ wg = 0
    /\ mu = NoHolder
    /\ out = <<>>
    /\ cells = <<>>
    /\ exited = FALSE
    /\ hist = [adds |-> 0, dones |-> 0, panic |-> FALSE, steps |-> 0]
    /\ closures = <<>>
    /\ calls = <<>>
    /\ ev = Idle
    /\ globalMap = NilMap
    /\ mapHist = NoStores

----------------------------------------------------------------------------
(* Closures: the count captured by a counter lives in a heap cell. *)

\* A count shared by every counter (a package-level variable).
makeCounterShared(cs) == IF cs = <<>> THEN <<0>> ELSE cs

\* count := 0; return func() int {...}: a closure over a fresh cell.
makeCounter(cs) == Append(cs, 0)
createCounter(cs) == Append(cs, 0)

\* count++ applied to a copy of the captured variable: the cell keeps its value.
counterIncrCopy(cs, c) == cs

\* count++ in the closure whose cell is c.
counterIncr(cs, c) == [cs EXCEPT ![c] = @ + 1]

\* return count
counterRet(cs, c) == cs[c]

----------------------------------------------------------------------------
(* Statements *)

Line(g, ins) == [g |-> g, s |-> ins.s, a |-> EvalAll(ins.args, mem, sharedData)]

\* Every statement executed is counted.
Tick == hist' = [hist EXCEPT !.steps = @ + 1]

\* fmt.Println / fmt.Printf
DoPrint(g) ==
    /\ At(g, "print")
    /\ out' = Append(out, Line(g, Cur(g)))
    /\ frames' = Step1(g, mem, sharedData)
    /\ UNCHANGED <<globalMap, mapHist, ev, closures, calls, demo, spawned, chans, wg, mu, mem, sharedData, cells, exited>>
    /\ Tick

\* go f(arg)
DoGo(g) ==
    /\ At(g, "go")
    /\ LET ins == Cur(g) IN
       /\ spawned' = spawned \cup {ins.g}
       /\ frames' = [frames EXCEPT
                        ![g] = Norm(Advance(frames[g]), mem, sharedData),
                        ![ins.g] = Norm(<<NewFrame(ins.fn, ins.arg)>>, mem, sharedData)]
    /\ UNCHANGED <<globalMap, mapHist, ev, closures, calls, demo, chans, wg, mu, mem, sharedData, out, cells, exited>>
    /\ Tick

\* ch <- v with a receiver waiting: the value goes to the receiver.
SendHandoff(g) ==
    /\ At(g, "send")
    /\ LET ins == Cur(g)
           c == ins.ch
           v == Eval(ins.e, mem, sharedData)
       IN /\ ~chans[c].closed
          /\ chans[c].recvq # <<>>
          /\ LET r == Head(chans[c].recvq)
                 m2 == SetVar(SetVar(mem, r.dst, v), r.okdst, TRUE)
             IN /\ mem' = m2
                /\ chans' = [chans EXCEPT ![c].recvq = Tail(@)]
                /\ frames' = Step2(g, r.g, m2, sharedData)
    /\ UNCHANGED <<globalMap, mapHist, ev, closures, calls, demo, spawned, wg, mu, sharedData, out, cells, exited>>
    /\ Tick

\* ch <- v with room in the buffer.
SendBuffered(g) ==
    /\ At(g, "send")
    /\ LET ins == Cur(g)
           c == ins.ch
       IN /\ ~chans[c].closed
          /\ chans[c].recvq = <<>>
          /\ Len(chans[c].buf) < ChanCap(c)
          /\ chans' = [chans EXCEPT ![c].buf = Append(@, Eval(ins.e, mem, sharedData))]
    /\ frames' = Step1(g, mem, sharedData)
    /\ UNCHANGED <<globalMap, mapHist, ev, closures, calls, demo, spawned, wg, mu, mem, sharedData, out, cells, exited>>
    /\ Tick

\* ch <- v with no receiver and no room: the sender parks.
SendPark(g) ==
    /\ At(g, "send")
    /\ LET ins == Cur(g)
           c == ins.ch
       IN /\ ~chans[c].closed
          /\ chans[c].recvq = <<>>
          /\ Len(chans[c].buf) >= ChanCap(c)
          /\ chans' = [chans EXCEPT ![c].sendq =
                          Append(@, [g |-> g, v |-> Eval(ins.e, mem, sharedData)])]
    /\ UNCHANGED <<globalMap, mapHist, ev, closures, calls, demo, frames, spawned, wg, mu, mem, sharedData, out, cells, exited>>
    /\ Tick

\* A buffer that delivers the value sent last.
BufLast(buf) == buf[Len(buf)]

\* The value a buffered channel delivers next, and the buffer left.
BufHead(buf) == Head(buf)
BufRest(buf) == Tail(buf)

CanRecv(c) == chans[c].sendq # <<>> \/ chans[c].buf # <<>> \/ chans[c].closed

\* A receive that reports ok = true on a closed and drained channel too.
PollClosedOk(c) ==
    LET ch == chans[c] IN
    IF ch.sendq # <<>>
    THEN LET s == Head(ch.sendq) IN
         IF ch.buf = <<>>
         THEN [v |-> s.v, ok |-> TRUE, woke |-> s.g,
               ch |-> [ch EXCEPT !.sendq = Tail(@)]]
         ELSE [v |-> BufHead(ch.buf), ok |-> TRUE, woke |-> s.g,
               ch |-> [ch EXCEPT !.sendq = Tail(@),
                                 !.buf = Append(BufRest(@), s.v)]]
    ELSE IF ch.buf # <<>>
    THEN [v |-> BufHead(ch.buf), ok |-> TRUE, woke |-> -1,
          ch |-> [ch EXCEPT !.buf = BufRest(@)]]
    ELSE [v |-> ChanZero(c), ok |-> TRUE, woke |-> -1, ch |-> ch]

\* A receive that does not block: value, ok, the sender woken (or -1) and
\* the channel afterwards.
Poll(c) ==
    LET ch == chans[c] IN
    IF ch.sendq # <<>>
    THEN LET s == Head(ch.sendq) IN
         IF ch.buf = <<>>
         THEN [v |-> s.v, ok |-> TRUE, woke |-> s.g,
               ch |-> [ch EXCEPT !.sendq = Tail(@)]]
         ELSE [v |-> BufHead(ch.buf), ok |-> TRUE, woke |-> s.g,
               ch |-> [ch EXCEPT !.sendq = Tail(@),
                                 !.buf = Append(BufRest(@), s.v)]]
    ELSE IF ch.buf # <<>>
    THEN [v |-> BufHead(ch.buf), ok |-> TRUE, woke |-> -1,
          ch |-> [ch EXCEPT !.buf = BufRest(@)]]
    ELSE [v |-> ChanZero(c), ok |-> FALSE, woke |-> -1, ch |-> ch]

\* g receives p into dst/okdst and continues with frames fs.
Deliver(g, c, p, dst, okdst, fs) ==
    LET m2 == SetVar(SetVar(mem, dst, p.v), okdst, p.ok) IN
    /\ mem' = m2
    /\ chans' = [chans EXCEPT ![c] = p.ch]
    /\ frames' = IF p.woke = -1
                 THEN [frames EXCEPT ![g] = Norm(fs, m2, sharedData)]
                 ELSE [frames EXCEPT ![g] = Norm(fs, m2, sharedData),
                                     ![p.woke] = Norm(Advance(frames[p.woke]), m2, sharedData)]

\* v := <-ch with a sender parked: take its value (or the buffer's head).
RecvFromSender(g) ==
    /\ At(g, "recv")
    /\ LET ins == Cur(g) IN
       /\ chans[ins.ch].sendq # <<>>
       /\ Deliver(g, ins.ch, Poll(ins.ch), ins.dst, ins.okdst, Advance(frames[g]))
    /\ UNCHANGED <<globalMap, mapHist, ev, closures, calls, demo, spawned, wg, mu, sharedData, out, cells, exited>>
    /\ Tick

\* v := <-ch with a value in the buffer.
RecvBuffered(g) ==
    /\ At(g, "recv")
    /\ LET ins == Cur(g) IN
       /\ chans[ins.ch].sendq = <<>>
       /\ chans[ins.ch].buf # <<>>
       /\ Deliver(g, ins.ch, Poll(ins.ch), ins.dst, ins.okdst, Advance(frames[g]))
    /\ UNCHANGED <<globalMap, mapHist, ev, closures, calls, demo, spawned, wg, mu, sharedData, out, cells, exited>>
    /\ Tick

\* v, ok := <-ch on a closed, drained channel: zero value, ok = false.
RecvClosed(g) ==
    /\ At(g, "recv")
    /\ LET ins == Cur(g) IN
       /\ chans[ins.ch].sendq = <<>>
       /\ chans[ins.ch].buf = <<>>
       /\ chans[ins.ch].closed
       /\ Deliver(g, ins.ch, Poll(ins.ch), ins.dst, ins.okdst, Advance(frames[g]))
    /\ UNCHANGED <<globalMap, mapHist, ev, closures, calls, demo, spawned, wg, mu, sharedData, out, cells, exited>>
    /\ Tick

\* v := <-ch with nothing to receive: the receiver parks.
RecvPark(g) ==
    /\ At(g, "recv")
    /\ LET ins == Cur(g) IN
       /\ ~CanRecv(ins.ch)
       /\ chans' = [chans EXCEPT ![ins.ch].recvq =
                       Append(@, [g |-> g, dst |-> ins.dst, okdst |-> ins.okdst])]
    /\ UNCHANGED <<globalMap, mapHist, ev, closures, calls, demo, frames, spawned, wg, mu, mem, sharedData, out, cells, exited>>
    /\ Tick

\* close(ch)
DoClose(g) ==
    /\ At(g, "close")
    /\ ~chans[Cur(g).ch].closed
    /\ chans[Cur(g).ch].recvq = <<>>
    /\ chans' = [chans EXCEPT ![Cur(g).ch].closed = TRUE]
    /\ frames' = Step1(g, mem, sharedData)
    /\ UNCHANGED <<globalMap, mapHist, ev, closures, calls, demo, spawned, wg, mu, mem, sharedData, out, cells, exited>>
    /\ Tick

\* select: one of the cases that can proceed, chosen arbitrarily.
SelectRecv(g) ==
    /\ At(g, "select")
    /\ LET ins == Cur(g) IN
       \E i \in 1..Len(ins.cases) :
           LET cs == ins.cases[i] IN
           /\ CanRecv(cs.ch)
           /\ Deliver(g, cs.ch, Poll(cs.ch), cs.dst, "_", JumpTo(frames[g], cs.to))
    /\ UNCHANGED <<globalMap, mapHist, ev, closures, calls, demo, spawned, wg, mu, sharedData, out, cells, exited>>
    /\ Tick

\* A select without its default case: no case can proceed, so it waits.
SelectBlocks(g) ==
    /\ At(g, "select")
    /\ LET ins == Cur(g) IN
       /\ \A i \in 1..Len(ins.cases) : ~CanRecv(ins.cases[i].ch)
       /\ chans' = [chans EXCEPT ![ins.cases[1].ch].recvq =
                       Append(@, [g |-> g, dst |-> ins.cases[1].dst, okdst |-> "_"])]
    /\ UNCHANGED <<globalMap, mapHist, ev, closures, calls, demo, frames, spawned, wg, mu, mem, sharedData, out, cells, exited>>
    /\ Tick

\* select: no case can proceed, so the default case runs.
SelectDefault(g) ==
    /\ At(g, "select")
    /\ LET ins == Cur(g) IN
       /\ \A i \in 1..Len(ins.cases) : ~CanRecv(ins.cases[i].ch)
       /\ frames' = [frames EXCEPT ![g] = Norm(JumpTo(frames[g], ins.dflt), mem, sharedData)]
    /\ UNCHANGED <<globalMap, mapHist, ev, closures, calls, demo, spawned, chans, wg, mu, mem, sharedData, out, cells, exited>>
    /\ Tick

\* wg.Add(1)
DoWgAdd(g) ==
    /\ At(g, "add")
    /\ wg' = wg + 1
    /\ hist' = [hist EXCEPT !.adds = @ + 1, !.steps = @ + 1]
    /\ frames' = Step1(g, mem, sharedData)
    /\ UNCHANGED <<globalMap, mapHist, ev, closures, calls, demo, spawned, chans, mu, mem, sharedData, out, cells, exited>>

\* wg.Done(): a negative counter panics.
DoWgDone(g) ==
    /\ At(g, "done")
    /\ wg' = wg - 1
    /\ IF wg - 1 < 0
       THEN /\ exited' = TRUE
            /\ hist' = [hist EXCEPT !.dones = @ + 1, !.panic = TRUE, !.steps = @ + 1]
            /\ UNCHANGED frames
       ELSE /\ hist' = [hist EXCEPT !.dones = @ + 1, !.steps = @ + 1]
            /\ frames' = Step1(g, mem, sharedData)
            /\ UNCHANGED exited
    /\ UNCHANGED <<globalMap, mapHist, ev, closures, calls, demo, spawned, chans, mu, mem, sharedData, out, cells>>

\* wg.Wait() returns when the counter is zero.
WaitReturns(n) == n = 0

DoWgWait(g) ==
    /\ At(g, "wait")
    /\ WaitReturns(wg)
    /\ frames' = Step1(g, mem, sharedData)
    /\ UNCHANGED <<globalMap, mapHist, ev, closures, calls, demo, spawned, chans, wg, mu, mem, sharedData, out, cells, exited>>
    /\ Tick

\* A mutex that never makes its caller wait.
CanLockAlways(m) == TRUE

\* mu.Lock() succeeds when nobody holds the mutex.
CanLock(m) == m = NoHolder

DoLock(g) ==
    /\ At(g, "lock")
    /\ CanLock(mu)
    /\ mu' = g
    /\ frames' = Step1(g, mem, sharedData)
    /\ UNCHANGED <<globalMap, mapHist, ev, closures, calls, demo, spawned, chans, wg, mem, sharedData, out, cells, exited>>
    /\ Tick

\* mu.Unlock()
DoUnlock(g) ==
    /\ At(g, "unlock")
    /\ mu' = NoHolder
    /\ frames' = Step1(g, mem, sharedData)
    /\ UNCHANGED <<globalMap, mapHist, ev, closures, calls, demo, spawned, chans, wg, mem, sharedData, out, cells, exited>>
    /\ Tick

\* x = e
DoStore(g) ==
    /\ At(g, "store")
    /\ LET m2 == SetVar(mem, Cur(g).n, Eval(Cur(g).e, mem, sharedData)) IN
       /\ mem' = m2
       /\ frames' = Step1(g, m2, sharedData)
    /\ UNCHANGED <<globalMap, mapHist, ev, closures, calls, demo, spawned, chans, wg, mu, sharedData, out, cells, exited>>
    /\ Tick

\* sharedData[i] = e: an index out of range panics.
DoStoreIdx(g) ==
    /\ At(g, "storeidx")
    /\ LET i == Eval(Cur(g).i, mem, sharedData)
           v == Eval(Cur(g).e, mem, sharedData)
       IN IF i >= 0 /\ i < Len(sharedData)
          THEN LET sd2 == [sharedData EXCEPT ![i + 1] = v] IN
               /\ sharedData' = sd2
               /\ frames' = Step1(g, mem, sd2)
               /\ UNCHANGED exited
               /\ Tick
          ELSE /\ exited' = TRUE
               /\ hist' = [hist EXCEPT !.panic = TRUE, !.steps = @ + 1]
               /\ UNCHANGED <<sharedData, frames>>
    /\ UNCHANGED <<globalMap, mapHist, ev, closures, calls, demo, spawned, chans, wg, mu, mem, out, cells>>

\* x++
DoIncr(g) ==
    /\ At(g, "incr")
    /\ LET m2 == SetVar(mem, Cur(g).n, mem[Cur(g).n] + 1) IN
       /\ mem' = m2
       /\ frames' = Step1(g, m2, sharedData)
    /\ UNCHANGED <<globalMap, mapHist, ev, closures, calls, demo, spawned, chans, wg, mu, sharedData, out, cells, exited>>
    /\ Tick

\* counter := createCounter()
DoMkCounter(g) ==
    /\ At(g, "mkcounter")
    /\ LET cs2 == createCounter(cells)
           m2 == SetVar(mem, Cur(g).dst, Len(cs2))
       IN /\ cells' = cs2
          /\ mem' = m2
          /\ frames' = Step1(g, m2, sharedData)
    /\ UNCHANGED <<globalMap, mapHist, ev, closures, calls, demo, spawned, chans, wg, mu, sharedData, out, exited>>
    /\ Tick

\* ret := counter()
DoCallCounter(g) ==
    /\ At(g, "callcounter")
    /\ LET c == mem[Cur(g).fn]
           cs2 == counterIncr(cells, c)
           m2 == SetVar(mem, Cur(g).dst, counterRet(cs2, c))
       IN /\ cells' = cs2
          /\ mem' = m2
          /\ frames' = Step1(g, m2, sharedData)
    /\ UNCHANGED <<globalMap, mapHist, ev, closures, calls, demo, spawned, chans, wg, mu, sharedData, out, exited>>
    /\ Tick

\* The demonstration has returned to main; main goes on and, at some
\* point, returns: the process exits and every goroutine stops with it.
Exit ==
    /\ Returned(0)
    /\ ~exited
    /\ exited' = TRUE
    /\ UNCHANGED <<globalMap, mapHist, ev, closures, calls, demo, frames, spawned, chans, wg, mu, mem, sharedData, out, cells, hist>>

Step(g) ==
    \/ DoPrint(g)
    \/ DoGo(g)
    \/ SendHandoff(g)
    \/ SendBuffered(g)
    \/ SendPark(g)
    \/ RecvFromSender(g)
    \/ RecvBuffered(g)
    \/ RecvClosed(g)
    \/ RecvPark(g)
    \/ DoClose(g)
    \/ SelectRecv(g)
    \/ SelectDefault(g)
    \/ DoWgAdd(g)
    \/ DoWgDone(g)
    \/ DoWgWait(g)
    \/ DoLock(g)
    \/ DoUnlock(g)
    \/ DoStore(g)
    \/ DoStoreIdx(g)
    \/ DoIncr(g)
    \/ DoMkCounter(g)
    \/ DoCallCounter(g)

Next == (\E g \in G : Step(g)) \/ Exit

Spec == Init /\ [][Next]_vars

Run == \E g \in G : Step(g)

\* The Go scheduler never idles while a goroutine can run.  (It also runs
\* every runnable goroutine eventually; the weaker condition is enough for
\* these programs, whose goroutines all have finitely many steps.)
FairSpec == Spec /\ WF_vars(Run)

TypeOK ==
    /\ demo \in Demos
    /\ spawned \subseteq G
    /\ wg \in Int
    /\ mu \in G \cup {NoHolder}
    /\ exited \in BOOLEAN

----------------------------------------------------------------------------
(* Counter closures called in any order: closures() of go_functions.go    *)
(* with the calls of counter and counter2 interleaved freely.             *)

ClosureInit ==
    /\ demo = "closures"
    /\ mem = [n \in VarNames |-> VarZero(n)]
    /\ sharedData = [i \in 1..SharedLen |-> 0]
    /\ frames = [g \in G |-> <<>>]
    /\ spawned = {}
    /\ chans = [c \in ChanNames |-> EmptyChan]
    /\ wg = 0
    /\ mu = NoHolder
    /\ out = <<>>
    /\ cells = <<>>
    /\ exited = FALSE
    /\ hist = [adds |-> 0, dones |-> 0, panic |-> FALSE, steps |-> 0]
    /\ closures = <<>>
    /\ calls = <<>>
    /\ ev = Idle
    /\ globalMap = NilMap
    /\ mapHist = NoStores

\* counter := makeCounter()
CallMakeCounter ==
    /\ Len(closures) < MaxCounters
    /\ cells' = makeCounter(cells)
    /\ closures' = Append(closures, [cell |-> Len(cells'), by |-> "makeCounter"])
    /\ UNCHANGED <<globalMap, mapHist, ev, calls, demo, frames, spawned, chans, wg, mu, mem, sharedData, out, exited, hist>>

\* counter := createCounter()
CallCreateCounter ==
    /\ Len(closures) < MaxCounters
    /\ cells' = createCounter(cells)
    /\ closures' = Append(closures, [cell |-> Len(cells'), by |-> "createCounter"])
    /\ UNCHANGED <<globalMap, mapHist, ev, calls, demo, frames, spawned, chans, wg, mu, mem, sharedData, out, exited, hist>>

\* counter(): count++; return count
CallClosure(k) ==
    /\ Len(calls) < MaxCalls
    /\ LET c == closures[k].cell
           cs2 == counterIncr(cells, c)
       IN /\ cells' = cs2
          /\ calls' = Append(calls, [k |-> k, ret |-> counterRet(cs2, c)])
    /\ UNCHANGED <<globalMap, mapHist, ev, closures, demo, frames, spawned, chans, wg, mu, mem, sharedData, out, exited, hist>>

ClosureNext ==
    \/ CallMakeCounter
    \/ CallCreateCounter
    \/ \E k \in 1..Len(closures) : CallClosure(k)

ClosureSpec == ClosureInit /\ [][ClosureNext]_vars

----------------------------------------------------------------------------
(* Helper functions: one call of a function on inputs drawn from bounded  *)
(* sets.  ev holds the call: its name, its arguments, the caller's memory, *)
(* the call stack of a recursive function, and what it returned.           *)

\* a call that has been made and has not yet run
NewCall(fn, in, m) == [fn |-> fn, in |-> in, st |-> "called", ret |-> <<>>, mem |-> m,
                       stack |-> <<>>, steps |-> 0, out |-> <<>>, panic |-> FALSE]

\* Go's int: two's complement of IntBits bits
MinInt == -(2^(IntBits - 1))
MaxInt == 2^(IntBits - 1) - 1
Ints == MinInt..MaxInt
Wrap(x) == ((x - MinInt) % (2^IntBits)) + MinInt

Abs(x) == IF x < 0 THEN -x ELSE x
Sgn(x) == IF x < 0 THEN -1 ELSE IF x > 0 THEN 1 ELSE 0

\* a / b on int, b # 0: truncated toward zero, wrapping when MinInt / -1
Quo(a, b) == Wrap(Sgn(a) * Sgn(b) * (Abs(a) \div Abs(b)))

\* error values: nil, fmt.Errorf(msg), CustomError{Code, Message}
NilErr == [kind |-> "nil", Code |-> 0, Message |-> ""]
Errorf(msg) == [kind |-> "errorString", Code |-> 0, Message |-> msg]
CustomError(code, msg) == [kind |-> "CustomError", Code |-> code, Message |-> msg]

\* float64, without rounding: s * n / d, signed zeros, infinities and NaN
RECURSIVE GCD(_, _)
GCD(a, b) == IF b = 0 THEN a ELSE GCD(b, a % b)
Fin(s, n, d) == [k |-> "fin", s |-> s, n |-> n \div GCD(n, d), d |-> d \div GCD(n, d)]
Inf(s) == [k |-> "inf", s |-> s, n |-> 1, d |-> 1]
NaN == [k |-> "nan", s |-> 1, n |-> 0, d |-> 1]
F(i) == Fin(IF i < 0 THEN -1 ELSE 1, Abs(i), 1)
Floats ==
    {Fin(s, n, d) : s \in {-1, 1}, n \in 0..MaxNum, d \in 1..MaxDen}
        \cup {Inf(1), Inf(-1), NaN}

\* b == 0 on float64: true of +0 and of -0, false of NaN
FIsZero(x) == x.k = "fin" /\ x.n = 0

\* a / b on float64 (IEEE 754: x/0 is an infinity, 0/0 and Inf/Inf are NaN)
FDiv(a, b) ==
    LET s == a.s * b.s
    IN IF a.k = "nan" \/ b.k = "nan" THEN NaN
       ELSE IF a.k = "inf" THEN (IF b.k = "inf" THEN NaN ELSE Inf(s))
       ELSE IF b.k = "inf" THEN Fin(s, 0, 1)
       ELSE IF b.n = 0 THEN (IF a.n = 0 THEN NaN ELSE Inf(s))
       ELSE Fin(s, a.n * b.d, a.d * b.n)

\* a * b on float64
FMul(a, b) ==
    LET s == a.s * b.s
    IN IF a.k = "nan" \/ b.k = "nan" THEN NaN
       ELSE IF a.k = "inf" \/ b.k = "inf"
            THEN (IF FIsZero(a) \/ FIsZero(b) THEN NaN ELSE Inf(s))
       ELSE Fin(s, a.n * b.n, a.d * b.d)

\* func divide(a, b float64) (float64, error)
divide(a, b) ==
    IF FIsZero(b)
    THEN [val |-> F(0), err |-> Errorf("division by zero")]
    ELSE [val |-> FDiv(a, b), err |-> NilErr]

divideIntSilent(a, b) ==
    IF b = 0
    THEN [val |-> 0, err |-> NilErr]
    ELSE [val |-> Quo(a, b), err |-> NilErr]

\* func divide(a, b int) (int, error), with fmt.Errorf
divideInt(a, b) ==
    IF b = 0
    THEN [val |-> 0, err |-> Errorf("division by zero")]
    ELSE [val |-> Quo(a, b), err |-> NilErr]

\* func divide(a, b int) (int, error), with CustomError
divideCustom(a, b) ==
    IF b = 0
    THEN [val |-> 0, err |-> CustomError(400, "division by zero")]
    ELSE [val |-> Quo(a, b), err |-> NilErr]

Called(fn) == ev.fn = fn /\ ev.st = "called"
HasReturned(fn) == ev.fn = fn /\ ev.st = "returned"
Return(v) == ev' = [ev EXCEPT !.st = "returned", !.ret = v, !.steps = @ + 1]
Others ==
    UNCHANGED <<globalMap, mapHist, closures, calls, demo, frames, spawned, chans, wg, mu, mem,
                sharedData, out, cells, exited, hist>>

\* result, err := divide(a, b), for each of the three functions of that name
CallDivide ==
    /\ \/ Called("divide") /\ Return(divide(ev.in[1], ev.in[2]))
       \/ Called("divideInt") /\ Return(divideInt(ev.in[1], ev.in[2]))
       \/ Called("divideCustom") /\ Return(divideCustom(ev.in[1], ev.in[2]))
    /\ Others

\* the caller's memory: a sequence of variables, a pointer is an index into
\* it and the nil pointer is Nil
Nil == 0
CellVals == {0, 42}
Memories == UNION {[1..n -> CellVals] : n \in 1..MaxCells}
Pointers(m) == {Nil} \cup (1..Len(m))

Say(s, a) == [s |-> s, a |-> a]

\* what a call did: the memory it left, the lines it printed, what it
\* returned, whether it panicked
Effect(m, o, r, p) == [mem |-> m, out |-> o, ret |-> r, panic |-> p]
Finish(e) ==
    ev' = [ev EXCEPT !.st = "returned", !.mem = e.mem, !.out = e.out,
                     !.ret = e.ret, !.panic = e.panic, !.steps = @ + 1]

\* fmt.Printf(s, *p): dereferencing the nil pointer panics; the effect
\* returns the pointers dereferenced
PrintDeref(m, p, s) ==
    IF p = Nil
    THEN Effect(m, <<>>, <<p>>, TRUE)
    ELSE Effect(m, <<Say(s, <<m[p]>>)>>, <<p>>, FALSE)

PrintOnly(m, s) == Effect(m, <<Say(s, <<>>)>>, <<>>, FALSE)

\* e, then f on the memory that e left (f is not run after a panic)
Then(e, f) ==
    IF e.panic THEN e ELSE Effect(f.mem, e.out \o f.out, e.ret \o f.ret, f.panic)

safeDereferenceUnchecked(m, ptr) == PrintDeref(m, ptr, "Safe dereference: %d")

\* func safeDereference(ptr *int)
safeDereference(m, ptr) ==
    IF ptr # Nil
    THEN PrintDeref(m, ptr, "Safe dereference: %d")
    ELSE PrintOnly(m, "Cannot dereference nil pointer")

\* func processOptionalValue(ptr *int)
processOptionalValue(m, ptr) ==
    IF ptr # Nil
    THEN PrintDeref(m, ptr, "Processing value: %d")
    ELSE PrintOnly(m, "No value provided")

\* pointerSafety: var nilPtr *int; if nilPtr != nil { ... } else { ... }
pointerSafety(m) ==
    LET nilPtr == Nil
    IN Then(Effect(m, <<Say("nilPtr == nil: %t", <<nilPtr = Nil>>)>>, <<>>, FALSE),
            IF nilPtr # Nil
            THEN PrintDeref(m, nilPtr, "*nilPtr = %d")
            ELSE PrintOnly(m, "nilPtr is nil, cannot dereference"))

CallSafeDereference ==
    /\ Called("safeDereference")
    /\ Finish(safeDereference(ev.mem, ev.in[1]))
    /\ Others

CallProcessOptionalValue ==
    /\ Called("processOptionalValue")
    /\ Finish(processOptionalValue(ev.mem, ev.in[1]))
    /\ Others

CallPointerSafety ==
    /\ Called("pointerSafety")
    /\ Finish(pointerSafety(ev.mem))
    /\ Others


\* a parameter or receiver passed by value: a new variable of the callee,
\* initialised with a copy of the argument
PassByReference(m, a) == [mem |-> m, addr |-> a]

PassByValue(m, a) == [mem |-> Append(m, m[a]), addr |-> Len(m) + 1]

\* returning discards the callee's variables: the caller's n remain
PopFrame(m, n) == SubSeq(m, 1, n)

\* func modifyValueCopy(val int) { val = 200 }, called as modifyValueCopy(x)
modifyValueCopy(m, x) ==
    LET val == PassByValue(m, x)
        m2 == [val.mem EXCEPT ![val.addr] = 200]
    IN Effect(PopFrame(m2, Len(m)), <<>>, <<>>, FALSE)

\* func movePoint(p Point, dx, dy int) Point, called as movePoint(point, dx, dy)
movePoint(m, point, dx, dy) ==
    LET p == PassByValue(m, point)
        m2 == [p.mem EXCEPT ![p.addr].X = Wrap(@ + dx)]
        m3 == [m2 EXCEPT ![p.addr].Y = Wrap(@ + dy)]
    IN Effect(PopFrame(m3, Len(m)), <<>>, m3[p.addr], FALSE)

\* func (c Circle) DoubleRadius() Circle, called as circle.DoubleRadius()
DoubleRadius(m, circle) ==
    LET c == PassByValue(m, circle)
    IN Effect(PopFrame(c.mem, Len(m)), <<>>,
              [Radius |-> FMul(c.mem[c.addr].Radius, F(2))], FALSE)

Coords == {MinInt, -1, 0, 2, MaxInt}
Points == [X : Coords, Y : Coords]
Circles == [Radius : Floats]

CallModifyValueCopy ==
    /\ Called("modifyValueCopy")
    /\ Finish(modifyValueCopy(ev.mem, ev.in.x))
    /\ Others

CallMovePoint ==
    /\ Called("movePoint")
    /\ Finish(movePoint(ev.mem, ev.in.x, ev.in.dx, ev.in.dy))
    /\ Others

CallDoubleRadius ==
    /\ Called("DoubleRadius")
    /\ Finish(DoubleRadius(ev.mem, ev.in.x))
    /\ Others

\* the arguments of a call whose first argument is the caller's variable x
Arg(m, x, dx, dy) == [m0 |-> m, x |-> x, dx |-> dx, dy |-> dy]

\* []int: a slice is the index of its backing array in the memory, a
\* length and a capacity; the nil slice has no array
Slice(arr, len, cap) == [arr |-> arr, len |-> len, cap |-> cap]
NilSlice == Slice(Nil, 0, 0)
Zeros(n) == [i \in 1..n |-> 0]
Elems(m, sl) == [i \in 1..sl.len |-> m[sl.arr][i]]

\* make([]int, n): a new zeroed array and the slice of all of it
Make(m, n) == [mem |-> Append(m, Zeros(n)), sl |-> Slice(Len(m) + 1, n, n)]

NewCap(cap) == IF cap = 0 THEN 1 ELSE 2 * cap

\* append(sl, v): in place when the capacity allows, else into a new and
\* larger array holding a copy of the elements
Append_(m, sl, v) ==
    IF sl.len < sl.cap
    THEN [mem |-> [m EXCEPT ![sl.arr][sl.len + 1] = v],
          sl |-> Slice(sl.arr, sl.len + 1, sl.cap)]
    ELSE LET c == NewCap(sl.cap)
             a == [i \in 1..c |-> IF i <= sl.len THEN m[sl.arr][i]
                                  ELSE IF i = sl.len + 1 THEN v ELSE 0]
         IN [mem |-> Append(m, a), sl |-> Slice(Len(m) + 1, sl.len + 1, c)]

\* a % b on int: the remainder has the sign of a
Rem(a, b) == a - b * (Sgn(a) * Sgn(b) * (Abs(a) \div Abs(b)))

\* the function literals passed to mapInts, filterInts and reduceInts, and
\* subtraction, which tells the order of a fold
Apply(fn, x) ==
    CASE fn = "square" -> x * x
      [] fn = "double" -> x * 2
Pred(fn, x) ==
    CASE fn = "even" -> Rem(x, 2) = 0
      [] fn = "gt5" -> x > 5
Apply2(fn, acc, x) ==
    CASE fn = "add" -> acc + x
      [] fn = "sub" -> acc - x
UnaryFns == {"square", "double"}
Preds == {"even", "gt5"}
BinaryFns == {"add", "sub"}

\* for i, num := range numbers { result[i] = fn(num) }, from index i on
RECURSIVE MapLoop(_, _, _, _, _)
MapLoop(m, numbers, result, fn, i) ==
    IF i > numbers.len THEN m
    ELSE MapLoop([m EXCEPT ![result.arr][i] = Apply(fn, m[numbers.arr][i])],
                 numbers, result, fn, i + 1)

mapIntsInPlace(m, numbers, fn) ==
    Effect(MapLoop(m, numbers, numbers, fn, 1), <<>>, numbers, FALSE)

\* func mapInts(numbers []int, fn func(int) int) []int
mapInts(m, numbers, fn) ==
    LET mk == Make(m, numbers.len)
    IN Effect(MapLoop(mk.mem, numbers, mk.sl, fn, 1), <<>>, mk.sl, FALSE)

\* for _, num := range numbers { if fn(num) { result = append(result, num) } }
RECURSIVE FilterLoop(_, _, _, _, _)
FilterLoop(m, numbers, result, fn, i) ==
    IF i > numbers.len THEN [mem |-> m, sl |-> result]
    ELSE LET num == m[numbers.arr][i]
             ap == Append_(m, result, num)
         IN IF Pred(fn, num)
            THEN FilterLoop(ap.mem, numbers, ap.sl, fn, i + 1)
            ELSE FilterLoop(m, numbers, result, fn, i + 1)

filterIntsReuse(m, numbers, fn) ==
    LET r == FilterLoop(m, numbers, Slice(numbers.arr, 0, numbers.cap), fn, 1)
    IN Effect(r.mem, <<>>, r.sl, FALSE)

\* func filterInts(numbers []int, fn func(int) bool) []int
filterInts(m, numbers, fn) ==
    LET r == FilterLoop(m, numbers, NilSlice, fn, 1)
    IN Effect(r.mem, <<>>, r.sl, FALSE)

\* for _, num := range numbers { result = fn(result, num) }
RECURSIVE ReduceLoop(_, _, _, _, _)
ReduceLoop(m, numbers, result, fn, i) ==
    IF i > numbers.len THEN result
    ELSE ReduceLoop(m, numbers, Apply2(fn, result, m[numbers.arr][i]), fn, i + 1)

RECURSIVE ReduceRight(_, _, _, _, _)
ReduceRight(m, numbers, result, fn, i) ==
    IF i > numbers.len THEN result
    ELSE Apply2(fn, m[numbers.arr][i], ReduceRight(m, numbers, result, fn, i + 1))

reduceIntsRight(m, numbers, initial, fn) ==
    Effect(m, <<>>, ReduceRight(m, numbers, initial, fn, 1), FALSE)

\* func reduceInts(numbers []int, initial int, fn func(int, int) int) int
reduceInts(m, numbers, initial, fn) ==
    Effect(m, <<>>, ReduceLoop(m, numbers, initial, fn, 1), FALSE)

\* higherOrderFunctions()
higherOrderFunctions(m) ==
    LET m1 == Append(m, <<1, 2, 3, 4, 5>>)
        numbers == Slice(Len(m1), 5, 5)
        squared == mapInts(m1, numbers, "square")
        evenNumbers == filterInts(squared.mem, numbers, "even")
        sum == reduceInts(evenNumbers.mem, numbers, 0, "add")
        mapped == mapInts(sum.mem, numbers, "double")
        filtered == filterInts(mapped.mem, mapped.ret, "gt5")
        result == reduceInts(filtered.mem, filtered.ret, 0, "add")
    IN Effect(result.mem,
              << Say("10. HIGHER-ORDER FUNCTIONS:", <<>>),
                 Say("Squared: %v", <<Elems(squared.mem, squared.ret)>>),
                 Say("Even numbers: %v", <<Elems(evenNumbers.mem, evenNumbers.ret)>>),
                 Say("Sum: %d", <<sum.ret>>),
                 Say("Chain result: %d", <<result.ret>>) >>,
              <<>>, FALSE)

ElemVals == {-3, 0, 2, 6}
Initials == {0, 1}
\* a slice of n elements with spare capacity, alone in the caller's memory
SliceArgs ==
    {[m0 |-> <<e \o Zeros(k)>>, s |-> Slice(1, Len(e), Len(e) + k)] :
        e \in UNION {[1..n -> ElemVals] : n \in 0..MaxLen}, k \in 0..MaxSpare}
WithFn(a, fn, init) == [m0 |-> a.m0, s |-> a.s, fn |-> fn, init |-> init]

CallMapInts ==
    /\ Called("mapInts")
    /\ Finish(mapInts(ev.mem, ev.in.s, ev.in.fn))
    /\ Others

CallFilterInts ==
    /\ Called("filterInts")
    /\ Finish(filterInts(ev.mem, ev.in.s, ev.in.fn))
    /\ Others

CallReduceInts ==
    /\ Called("reduceInts")
    /\ Finish(reduceInts(ev.mem, ev.in.s, ev.in.init, ev.in.fn))
    /\ Others

CallHigherOrderFunctions ==
    /\ Called("higherOrderFunctions")
    /\ Finish(higherOrderFunctions(ev.mem))
    /\ Others

\* i := i in the body of a loop: a new variable holding a copy of i
NoShadow(m, i) == [mem |-> m, addr |-> i]

Shadow(m, i) == [mem |-> Append(m, m[i]), addr |-> Len(m) + 1]

\* for i := 0; i < 5; i++ { i := i; functions = append(functions, func() int
\* { return i * i }) }: i is the address of the loop variable, a function
\* value is the variable it captured
RECURSIVE MakeFunctionsLoop(_, _, _)
MakeFunctionsLoop(m, i, functions) ==
    IF ~(m[i] < 5) THEN Effect(m, <<>>, functions, FALSE)
    ELSE LET inner == Shadow(m, i)
             f == [cell |-> inner.addr]
         IN MakeFunctionsLoop([inner.mem EXCEPT ![i] = @ + 1], i,
                              Append(functions, f))

\* func makeFunctions() []func() int
makeFunctions(m) == MakeFunctionsLoop(Append(m, 0), Len(m) + 1, <<>>)

\* f(): return i * i
callFunction(m, f) == m[f.cell] * m[f.cell]

CallMakeFunctions ==
    /\ Called("makeFunctions")
    /\ Finish(makeFunctions(ev.mem))
    /\ Others

\* closures: for i, f := range functions { fmt.Printf("Function %d: %d", i, f()) }
CallFunction ==
    /\ HasReturned("makeFunctions")
    /\ Len(ev.out) < Len(ev.ret)
    /\ LET i == Len(ev.out)
       IN ev' = [ev EXCEPT !.out = Append(@, Say("Function %d: %d",
                                  <<i, callFunction(ev.mem, ev.ret[i + 1])>>)),
                           !.steps = @ + 1]
    /\ Others

\* Recursive functions run call by call: ev.stack holds the frames of the
\* calls in progress (innermost last), ev.ret what the last call returned.
MaxDepth == MaxFib + 2
FactRange == (-MaxFact)..MaxFact
FibRange == (-MaxFib)..MaxFib
Frame(n) == [n |-> n, phase |-> 0, a |-> 0]
ReturnV(v) == [op |-> "return", v |-> v, arg |-> 0]
CallRec(arg) == [op |-> "call", v |-> 0, arg |-> arg]
Recursing(fn) == ev.fn = fn /\ ev.st \in {"called", "running"}
Returning(fn) == ev.fn = fn /\ ev.st = "returning"
\* the innermost call returns v
Ret(v) ==
    ev' = [ev EXCEPT !.st = "returning", !.ret = v, !.stack = Pop(@), !.steps = @ + 1]
\* the innermost call, now in phase ph having kept a, calls itself with n
Recurse(ph, a, n) ==
    /\ Len(ev.stack) < MaxDepth
    /\ ev' = [ev EXCEPT !.st = "running",
                        !.stack = Append(SetTop(@, [Top(@) EXCEPT !.phase = ph, !.a = a]),
                                         Frame(n)),
                        !.steps = @ + 1]
\* the outermost call has returned to the caller
ReturnToCaller == ev.stack = <<>> /\ ev' = [ev EXCEPT !.st = "returned", !.steps = @ + 1]

factorialNoBase(n) == IF n = 1 THEN ReturnV(1) ELSE CallRec(n - 1)

\* func factorial(n int) int: if n <= 1 { return 1 }; ... factorial(n-1)
factorial(n) == IF n <= 1 THEN ReturnV(1) ELSE CallRec(n - 1)

FactorialCall ==
    /\ Recursing("factorial")
    /\ LET b == factorial(Top(ev.stack).n)
       IN IF b.op = "return" THEN Ret(b.v) ELSE Recurse(1, 0, b.arg)
    /\ Others

\* return n * factorial(n-1)
FactorialReturn ==
    /\ Returning("factorial")
    /\ \/ ReturnToCaller
       \/ ev.stack # <<>> /\ Ret(Top(ev.stack).n * ev.ret)
    /\ Others

fibonacciBaseZero(n) == IF n <= 0 THEN ReturnV(n) ELSE CallRec(n - 1)

\* func fibonacci(n int) int: if n <= 1 { return n }; ... fibonacci(n-1)
fibonacci(n) == IF n <= 1 THEN ReturnV(n) ELSE CallRec(n - 1)

FibonacciCall ==
    /\ Recursing("fibonacci")
    /\ LET b == fibonacci(Top(ev.stack).n)
       IN IF b.op = "return" THEN Ret(b.v) ELSE Recurse(1, 0, b.arg)
    /\ Others

\* return fibonacci(n-1) + fibonacci(n-2)
FibonacciReturn ==
    /\ Returning("fibonacci")
    /\ \/ ReturnToCaller
       \/ /\ ev.stack # <<>>
          /\ Top(ev.stack).phase = 1
          /\ Recurse(2, ev.ret, Top(ev.stack).n - 2)
       \/ /\ ev.stack # <<>>
          /\ Top(ev.stack).phase = 2
          /\ Ret(Top(ev.stack).a + ev.ret)
    /\ Others

RecCall(fn, n) == [NewCall(fn, <<n>>, <<>>) EXCEPT !.stack = <<Frame(n)>>]

HelperInit ==
    /\ demo = "helpers"
    /\ mem = [n \in VarNames |-> VarZero(n)]
    /\ sharedData = [i \in 1..SharedLen |-> 0]
    /\ frames = [g \in G |-> <<>>]
    /\ spawned = {}
    /\ chans = [c \in ChanNames |-> EmptyChan]
    /\ wg = 0
    /\ mu = NoHolder
    /\ out = <<>>
    /\ cells = <<>>
    /\ exited = FALSE
    /\ hist = [adds |-> 0, dones |-> 0, panic |-> FALSE, steps |-> 0]
    /\ closures = <<>>
    /\ calls = <<>>
    /\ globalMap = NilMap
    /\ mapHist = NoStores
    /\ \/ \E a, b \in Floats : ev = NewCall("divide", <<a, b>>, <<>>)
       \/ \E a, b \in Ints : ev = NewCall("divideInt", <<a, b>>, <<>>)
       \/ \E a, b \in Ints : ev = NewCall("divideCustom", <<a, b>>, <<>>)
       \/ \E m \in Memories : \E p \in Pointers(m) :
             ev = NewCall("safeDereference", <<p>>, m)
       \/ \E m \in Memories : \E p \in Pointers(m) :
             ev = NewCall("processOptionalValue", <<p>>, m)
       \/ \E m \in Memories : ev = NewCall("pointerSafety", <<>>, m)
       \/ \E m \in Memories : \E x \in 1..Len(m) :
             ev = NewCall("modifyValueCopy", Arg(m, x, 0, 0), m)
       \/ \E p \in Points : \E dx, dy \in Coords :
             ev = NewCall("movePoint", Arg(<<p>>, 1, dx, dy), <<p>>)
       \/ \E c \in Circles :
             ev = NewCall("DoubleRadius", Arg(<<c>>, 1, 0, 0), <<c>>)
       \/ \E a \in SliceArgs : \E fn \in UnaryFns :
             ev = NewCall("mapInts", WithFn(a, fn, 0), a.m0)
       \/ \E a \in SliceArgs : \E fn \in Preds :
             ev = NewCall("filterInts", WithFn(a, fn, 0), a.m0)
       \/ \E a \in SliceArgs : \E fn \in BinaryFns : \E init \in Initials :
             ev = NewCall("reduceInts", WithFn(a, fn, init), a.m0)
       \/ ev = NewCall("higherOrderFunctions", <<>>, <<>>)
       \/ \E m \in Memories : ev = NewCall("makeFunctions", <<>>, m)
       \/ \E n \in FactRange : ev = RecCall("factorial", n)
       \/ \E n \in FibRange : ev = RecCall("fibonacci", n)

HelperNext ==
    \/ CallDivide
    \/ CallSafeDereference
    \/ CallProcessOptionalValue
    \/ CallPointerSafety
    \/ CallModifyValueCopy
    \/ CallMovePoint
    \/ CallDoubleRadius
    \/ CallMapInts
    \/ CallFilterInts
    \/ CallReduceInts
    \/ CallHigherOrderFunctions
    \/ CallMakeFunctions
    \/ CallFunction
    \/ FactorialCall
    \/ FactorialReturn
    \/ FibonacciCall
    \/ FibonacciReturn

HelperSpec == HelperInit /\ [][HelperNext]_vars

----------------------------------------------------------------------------
(* memory-model/escape_analysis_examples.go: the package-level globalMap *)

\* the number of calls that store in globalMap
MaxStores == 3

\* the values passed to storeInMap (heapAllocationExamples passes 200)
StoreValues == {-7, 0, 42, 200}

\* the keys and the values passed to storeInGlobalMap
\* (globalVariableExamples passes "key" and "value")
StoreKeys == {"key", "value"}
StoreStrings == {"value", "200"}

\* The decimal digits of a natural number, most significant first.
RECURSIVE FormatUint(_)
FormatUint(n) ==
    LET digit == <<"0", "1", "2", "3", "4", "5", "6", "7", "8", "9">>[(n % 10) + 1]
    IN  IF n < 10 THEN digit ELSE FormatUint(n \div 10) \o digit

\* fmt.Sprintf("%d", value)
FormatInt(value) ==
    IF value < 0 THEN "-" \o FormatUint(0 - value) ELSE FormatUint(value)

\* make(map[string]string): a new map without entries
MakeMap == [nil |-> FALSE, kv |-> [k \in {} |-> ""]]

\* m[key] = value, after made maps were made by the call; an assignment to an
\* entry of a nil map panics
MapAssign(m, key, value, made) ==
    IF m.nil
    THEN [gm |-> m, made |-> made, panic |-> TRUE]
    ELSE [gm |-> [m EXCEPT !.kv = [k \in DOMAIN m.kv \cup {key} |->
                                      IF k = key THEN value ELSE m.kv[k]]],
          made |-> made, panic |-> FALSE]

\* func storeInMap(value int)
storeInMap(gm, value) ==
    IF gm.nil
    THEN MapAssign(MakeMap, "value", FormatInt(value), 1)
    ELSE MapAssign(gm, "value", FormatInt(value), 0)

\* storeInGlobalMap with a map made by every call
storeInGlobalMapRemake(gm, key, value) ==
    MapAssign(MakeMap, key, value, 1)

\* func storeInGlobalMap(key, value string)
storeInGlobalMap(gm, key, value) ==
    IF gm.nil
    THEN MapAssign(MakeMap, key, value, 1)
    ELSE MapAssign(gm, key, value, 0)

\* One call returns (or panics): globalMap is what the call left, and the
\* history records the call.
Stored(call, r) ==
    /\ Len(mapHist.calls) < MaxStores
    /\ ~mapHist.panic
    /\ globalMap' = r.gm
    /\ mapHist' = [calls  |-> Append(mapHist.calls, call),
                   allocs |-> mapHist.allocs + r.made,
                   panic  |-> r.panic]
    /\ UNCHANGED <<ev, closures, calls, demo, frames, spawned, chans, wg, mu,
                   mem, sharedData, out, cells, exited, hist>>

\* storeInMap(value)
CallStoreInMap ==
    \E value \in StoreValues :
        Stored([fn |-> "storeInMap", key |-> "", str |-> "", int |-> value,
                made |-> storeInMap(globalMap, value).made],
               storeInMap(globalMap, value))

\* storeInGlobalMap(key, value)
CallStoreInGlobalMap ==
    \E key \in StoreKeys, value \in StoreStrings :
        Stored([fn |-> "storeInGlobalMap", key |-> key, str |-> value, int |-> 0,
                made |-> storeInGlobalMap(globalMap, key, value).made],
               storeInGlobalMap(globalMap, key, value))

\* The package is loaded: globalMap is nil and no function has run.
MapInit ==
    /\ demo = "escape_analysis"
    /\ mem = [n \in VarNames |-> VarZero(n)]
    /\ sharedData = [i \in 1..SharedLen |-> 0]
    /\ frames = [g \in G |-> <<>>]
    /\ spawned = {}
    /\ chans = [c \in ChanNames |-> EmptyChan]
    /\ wg = 0
    /\ mu = NoHolder
    /\ out = <<>>
    /\ cells = <<>>
    /\ exited = FALSE
    /\ hist = [adds |-> 0, dones |-> 0, panic |-> FALSE, steps |-> 0]
    /\ closures = <<>>
    /\ calls = <<>>
    /\ ev = Idle
    /\ globalMap = NilMap
    /\ mapHist = NoStores

MapNext ==
    \/ CallStoreInMap
    \/ CallStoreInGlobalMap

MapSpec == MapInit /\ [][MapNext]_vars

----------------------------------------------------------------------------
(* Properties *)

\* The lines of out that satisfy a test, in order.
Tags(lines) == [i \in 1..Len(lines) |-> lines[i].s]

\* Position of the first line with tag s in out, 0 when there is none.
Pos(s) ==
    IF \E i \in 1..Len(out) : out[i].s = s
    THEN CHOOSE i \in 1..Len(out) : out[i].s = s /\ \A j \in 1..(i - 1) : out[j].s # s
    ELSE 0

Count(s) == Cardinality({i \in 1..Len(out) : out[i].s = s})

Printed(s) == Pos(s) > 0

Before(s, t) == Printed(s) /\ Printed(t) /\ Pos(s) < Pos(t)

IsPrefix(p, q) == Len(p) <= Len(q) /\ SubSeq(q, 1, Len(p)) = p

Reverse(q) == [i \in 1..Len(q) |-> q[Len(q) + 1 - i]]

\* The calls deferred by the body of deferStatements, in the order of its
\* defer statements.
IsDefer(ins) == ins.op = "defer"
Registered == [i \in 1..Len(SelectSeq(deferStatements, IsDefer)) |->
                 SelectSeq(deferStatements, IsDefer)[i].ins.s]

IsDeferredLine(l) == \E i \in 1..Len(Registered) : Registered[i] = l.s
Executed == Tags(SelectSeq(out, IsDeferredLine))

\* C7: the three deferred prints of deferStatements(), registered in the
\* order "Deferred 1", "Deferred 2", "Deferred 3", run in the reverse order:
\* what has run so far is always a prefix of the reversed registration order,
\* and all three have run when the function has returned.
C7_DeferLIFO ==
    demo = "deferStatements" =>
        /\ Registered = <<"Deferred 1", "Deferred 2", "Deferred 3">>
        /\ IsPrefix(Executed, Reverse(Registered))
        /\ Returned(0) => Executed = <<"Deferred 3", "Deferred 2", "Deferred 1">>

C7_Witness ==
    /\ demo = "deferStatements"
    /\ Returned(0)
    /\ Executed = <<"Deferred 3", "Deferred 2", "Deferred 1">>

\* C8: deferWithParameters() prints "Current value: 20" first and
\* "Deferred value: 10" afterwards: the deferred call prints the value x had
\* at the defer statement although x is 20 when it runs.
C8_DeferArgsEager ==
    demo = "deferStatements" =>
        /\ Printed("Deferred value: %d") =>
              /\ out[Pos("Deferred value: %d")].a = <<10>>
              /\ mem["x"] = 20
              /\ Before("Current value: %d", "Deferred value: %d")
        /\ Printed("Current value: %d") => out[Pos("Current value: %d")].a = <<20>>
        /\ Returned(0) => Count("Deferred value: %d") = 1 /\ Count("Current value: %d") = 1

C8_Witness ==
    /\ demo = "deferStatements"
    /\ Printed("Deferred value: %d")
    /\ out[Pos("Deferred value: %d")].a = <<10>>
    /\ out[Pos("Current value: %d")].a = <<20>>

\* The number of calls made to closure k among the first i calls.
CallsTo(k, i) == Cardinality({j \in 1..i : calls[j].k = k})

\* C9: the k-th call of a counter returned by makeCounter() or
\* createCounter() returns k: the captured count persists between the calls
\* and each call adds exactly one to it.
C9_CounterCounts ==
    /\ \A i \in 1..Len(calls) : calls[i].ret = CallsTo(calls[i].k, i)
    /\ \A k \in 1..Len(closures) : cells[closures[k].cell] = CallsTo(k, Len(calls))

C9_Witness ==
    \E i \in 1..Len(calls) :
        /\ calls[i].ret = 3
        /\ CallsTo(calls[i].k, i) = 3

\* C10: two counters have independent captured state: a call of one
\* counter leaves the count of every other counter unchanged, and no two
\* counters capture the same cell.
C10_Independent ==
    [][ /\ \A j, k \in 1..Len(closures') : j # k => closures'[j].cell # closures'[k].cell
        /\ \A k \in 1..Len(closures) :
              (Len(calls') = Len(calls) + 1 /\ calls'[Len(calls')].k # k)
                  => cells'[closures[k].cell] = cells[closures[k].cell] ]_vars

C10_Witness ==
    /\ Len(closures) = 2
    /\ closures[1].by = "makeCounter"
    /\ closures[2].by = "makeCounter"
    /\ Len(calls) >= 3
    /\ calls[1].k = 1 /\ calls[2].k = 2 /\ calls[3].k = 1
    /\ calls[2].ret = 1 /\ calls[3].ret = 2

----------------------------------------------------------------------------
(* Wait groups, the mutex, channel order *)

WaitPc(d) == CHOOSE i \in 1..Len(Code(d, 0)) : Code(d, 0)[i].op = "wait"

\* The caller of the demonstration has got past its wg.Wait().
PastWait == Returned(0) \/ (frames[0] # <<>> /\ frames[0][1].pc > WaitPc(demo))

WorkerCount(d) ==
    CASE d = "stackPerGoroutine" -> StackWorkers
      [] d = "goroutineMemoryIssues" -> IssueWorkers
      [] d = "memoryContention" -> ContentionWorkers
      [] d = "heapSharing" -> HeapWorkers

WorkerTag(d) ==
    CASE d = "stackPerGoroutine" -> "Goroutine %d: localVar=%d"
      [] d = "goroutineMemoryIssues" -> "Goroutine %d: %d elements"
      [] d = "heapSharing" -> "Goroutine %d: sharedData[%d]=%d"
      [] d = "goroutines" -> "Worker %d: Processing"

\* The positions of out where the worker started with id printed its line.
WorkerLines(d, id) ==
    {i \in 1..Len(out) : out[i].s = WorkerTag(d) /\ out[i].a[1] = id}

Workers == spawned \ {0}

\* C4: in stackPerGoroutine(), goroutineMemoryIssues() and
\* memoryContention() every go statement is preceded by its wg.Add(1), the
\* wait-group counter is never negative, wg.Wait() returns only when all 5,
\* 5 and 10 workers have called wg.Done(), and so the line printed after
\* Wait comes after every worker's line.
C4_WaitGroupBarrier ==
    demo \in {"stackPerGoroutine", "goroutineMemoryIssues", "memoryContention"} =>
        /\ wg >= 0
        /\ ~hist.panic
        /\ wg = hist.adds - hist.dones
        /\ Cardinality(Workers) <= hist.adds
        /\ hist.adds <= Cardinality(Workers) + 1
        /\ PastWait =>
              /\ hist.dones = WorkerCount(demo)
              /\ Cardinality(Workers) = WorkerCount(demo)
              /\ \A g \in Workers : Returned(g)
        /\ (demo = "stackPerGoroutine"
              /\ Printed("Each goroutine has independent stack memory")) =>
              \A id \in 0..(StackWorkers - 1) :
                  /\ Cardinality(WorkerLines(demo, id)) = 1
                  /\ \A i \in WorkerLines(demo, id) :
                        i < Pos("Each goroutine has independent stack memory")
        /\ (demo = "goroutineMemoryIssues" /\ Returned(0)) =>
              \A id \in 0..(IssueWorkers - 1) : Cardinality(WorkerLines(demo, id)) = 1

C4_Witness ==
    /\ demo = "stackPerGoroutine"
    /\ Printed("Each goroutine has independent stack memory")
    /\ hist.dones = StackWorkers
    /\ out[2].a[1] = 4

\* g is between its mu.Lock() and the return of its mu.Unlock().
InCS(g) ==
    /\ g \in Workers
    /\ frames[g] # <<>>
    /\ InBody(Top(frames[g]))
    /\ Cur(g).op \in {"storeidx", "print", "unlock"}

\* C5: in heapSharing() at most one goroutine is between mu.Lock() and
\* mu.Unlock(); goroutine id writes index id only, within the 10 elements,
\* and prints sharedData[id] = id*10; once wg.Wait() has returned
\* sharedData is 0, 10, 20 followed by seven zeros.
C5_MutexSharedSlice ==
    demo = "heapSharing" =>
        /\ Cardinality({g \in Workers : InCS(g)}) <= 1
        /\ \A g \in Workers : InCS(g) => mu = g
        /\ ~hist.panic
        /\ \A g \in Workers :
              (frames[g] # <<>> /\ InBody(Top(frames[g])) /\ Cur(g).op = "storeidx") =>
                  /\ Eval(Cur(g).i, mem, sharedData) = g - 1
                  /\ Eval(Cur(g).i, mem, sharedData) \in 0..(SharedLen - 1)
        /\ \A i \in 1..SharedLen :
              sharedData[i] = 0 \/ (i <= HeapWorkers /\ sharedData[i] = 10 * (i - 1))
        /\ \A i \in 1..Len(out) :
              out[i].s = WorkerTag(demo) =>
                  out[i].a = <<out[i].g - 1, out[i].g - 1, 10 * (out[i].g - 1)>>
        /\ PastWait =>
              /\ sharedData = <<0, 10, 20, 0, 0, 0, 0, 0, 0, 0>>
              /\ \A id \in 0..(HeapWorkers - 1) : Cardinality(WorkerLines(demo, id)) = 1

C5_Witness ==
    /\ demo = "heapSharing"
    /\ PastWait
    /\ sharedData = <<0, 10, 20, 0, 0, 0, 0, 0, 0, 0>>
    /\ out[2].g = 3

ChannelDemos == {"channelsSimple", "channels"}

ParkedOn(g, c) == \E i \in 1..Len(chans[c].sendq) : chans[c].sendq[i].g = g

\* C6: in channels() the caller receives 42 from ch1 and then "Hello",
\* "World", "Go" from ch2, in the order sent.  The sender never blocks
\* forever: it waits on ch1 only while the caller is about to receive from
\* ch1, it never waits on ch2, and it has run to its end when the caller has
\* received the last value.
C6_ChannelOrder ==
    demo \in ChannelDemos =>
        /\ Printed("Received from ch1: %d") =>
              out[Pos("Received from ch1: %d")].a = <<42>>
        /\ ParkedOn(1, "ch1") =>
              /\ Runnable(0)
              /\ Cur(0).op = "recv"
              /\ Cur(0).ch = "ch1"
        /\ Printed("Received from ch2: %s, %s, %s") =>
              /\ out[Pos("Received from ch2: %s, %s, %s")].a = <<"Hello", "World", "Go">>
              /\ Before("Received from ch1: %d", "Received from ch2: %s, %s, %s")
              /\ Returned(1)
        /\ ~ParkedOn(1, "ch2")
        /\ \/ IsPrefix(chans["ch2"].buf, <<"Hello", "World", "Go">>)
           \/ IsPrefix(chans["ch2"].buf, <<"World", "Go">>)
           \/ IsPrefix(chans["ch2"].buf, <<"Go">>)

C6_Witness ==
    /\ demo = "channels"
    /\ Printed("Received from ch2: %s, %s, %s")
    /\ out[Pos("Received from ch2: %s, %s, %s")].a = <<"Hello", "World", "Go">>
    /\ out[Pos("Received from ch1: %d")].a = <<42>>

----------------------------------------------------------------------------
(* Termination *)

\* The statements a function can execute, those of the goroutines it
\* starts and of the functions it calls included.
RECURSIVE Size(_, _)
Size(fn, arg) ==
    LET code == Code(fn, arg)
        Sum[i \in 0..Len(code)] ==
            IF i = 0 THEN 0
            ELSE Sum[i - 1] + 1
                 + (IF code[i].op = "go" THEN Size(code[i].fn, code[i].arg) ELSE 0)
                 + (IF code[i].op = "call" THEN Size(code[i].fn, 0) ELSE 0)
    IN  Sum[Len(code)]

\* A statement takes at most two steps: a send or receive that parks, and
\* its completion.
StepBound(d) == 2 * Size(d, 0)

TerminatingDemos ==
    { "channelsSimple", "channels", "goroutinesSimple", "goroutines",
      "goroutinePatterns", "stackPerGoroutine", "heapSharing",
      "memoryContention", "goroutineMemoryIssues" }

\* C2: every concurrency demonstration runs to completion: as long as its
\* caller has not returned some goroutine can take a step (the caller is
\* never blocked with nothing left to wake it: no deadlock), and the steps
\* taken never exceed a bound fixed by the code, so that under fair
\* scheduling the caller reaches its return.
C2_RunsToCompletion ==
    demo \in TerminatingDemos =>
        /\ ~hist.panic
        /\ hist.steps <= StepBound(demo)
        /\ (~Returned(0) /\ ~exited) => ENABLED Run
        /\ (~Returned(0) /\ Parked(0)) =>
              \E g \in Workers : Runnable(g) /\ ENABLED Step(g)

C2_Witness ==
    /\ demo = "goroutines"
    /\ Returned(0)
    /\ Printed("All goroutines completed")
    /\ out[2].s = "Goroutine result: %d"

----------------------------------------------------------------------------
(* Output *)

L(s, a) == [s |-> s, a |-> a]

SameLine(l, r) == l.s = r.s /\ l.a = r.a

SameLines(o, ref) ==
    /\ Len(o) = Len(ref)
    /\ \A i \in 1..Len(ref) : SameLine(o[i], ref[i])

LinesPrefix(o, ref) ==
    /\ Len(o) <= Len(ref)
    /\ \A i \in 1..Len(o) : SameLine(o[i], ref[i])

OutputDemos == {"goroutines", "channels", "stackPerGoroutine", "heapSharing"}

\* The lines of the run in which every goroutine runs as soon as it is
\* started (and the select takes its first case).
FixedOut(d) ==
    CASE d = "stackPerGoroutine" ->
           << L("Stack per Goroutine:", <<>>) >>
           \o [k \in 1..StackWorkers |-> L("Goroutine %d: localVar=%d", <<k - 1, 100 * (k - 1)>>)]
           \o << L("Each goroutine has independent stack memory", <<>>) >>
      [] d = "heapSharing" ->
           << L("Heap Sharing:", <<>>) >>
           \o [k \in 1..HeapWorkers |->
                 L("Goroutine %d: sharedData[%d]=%d", <<k - 1, k - 1, 10 * (k - 1)>>)]
           \o << L("Heap memory can be shared between goroutines", <<>>) >>
      [] d = "goroutines" ->
           << L("4. GOROUTINES:", <<>>),
              L("Goroutine 1: Hello from goroutine!", <<>>),
              L("Goroutine %d: Running", <<1>>),
              L("Goroutine result: %d", <<42>>) >>
           \o [k \in 1..DoneWorkers |-> L("Worker %d: Processing", <<k - 1>>)]
           \o << L("All goroutines completed", <<>>) >>
      [] d = "channels" ->
           << L("3. CHANNELS:", <<>>),
              L("Received from ch1: %d", <<42>>),
              L("Received from ch2: %s, %s, %s", <<"Hello", "World", "Go">>),
              L("Received: %d, ok: %t", <<1, TRUE>>),
              L("Received: %d, ok: %t", <<2, TRUE>>),
              L("Received: %d, ok: %t", <<0, FALSE>>),
              L("Received from ch4: %d", <<1>>) >>

\* C1 as claimed: every run of a concurrent demonstration prints the same
\* sequence of lines.
C1_FixedOutput ==
    (demo \in OutputDemos /\ exited) => SameLines(out, FixedOut(demo))

\* The lines the caller of the demonstration prints itself, whatever the
\* interleaving; channels() adds the line of its select.
MainFixed(d) ==
    CASE d = "stackPerGoroutine" ->
           << L("Stack per Goroutine:", <<>>),
              L("Each goroutine has independent stack memory", <<>>) >>
      [] d = "heapSharing" ->
           << L("Heap Sharing:", <<>>),
              L("Heap memory can be shared between goroutines", <<>>) >>
      [] d = "goroutines" ->
           << L("4. GOROUTINES:", <<>>),
              L("Goroutine result: %d", <<42>>),
              L("All goroutines completed", <<>>) >>
      [] d = "channels" -> SubSeq(FixedOut("channels"), 1, 6)

SelectLines ==
    { L("Received from ch4: %d", <<1>>),
      L("Received from ch5: %d", <<2>>),
      L("No value ready", <<>>) }

ByMain(l) == l.g = 0
MainLines == SelectSeq(out, ByMain)

LinesBy(g) == {i \in 1..Len(out) : out[i].g = g}

Trailer(d) == MainFixed(d)[Len(MainFixed(d))].s

BarrierWorkers(d) ==
    CASE d = "stackPerGoroutine" -> StackWorkers
      [] d = "heapSharing" -> HeapWorkers
      [] d = "goroutines" -> DoneWorkers
      [] OTHER -> 0

\* C1 as amended: the caller's own lines come in a fixed order (the last
\* line of channels() being one of the three outcomes of its select), the
\* first line printed is the caller's heading, no goroutine prints its line
\* twice, and every worker the caller waits for has printed its line once
\* before the caller's last line.
C1_MainOrderFixed ==
    demo \in OutputDemos =>
        /\ out # <<>> => SameLine(out[1], MainFixed(demo)[1])
        /\ \/ LinesPrefix(MainLines, MainFixed(demo))
           \/ /\ demo = "channels"
              /\ Len(MainLines) = Len(MainFixed(demo)) + 1
              /\ LinesPrefix(SubSeq(MainLines, 1, Len(MainFixed(demo))), MainFixed(demo))
              /\ \E l \in SelectLines : SameLine(MainLines[Len(MainLines)], l)
        /\ Returned(0) =>
              Len(MainLines) = Len(MainFixed(demo)) + (IF demo = "channels" THEN 1 ELSE 0)
        /\ \A g \in Workers : Cardinality(LinesBy(g)) <= 1
        /\ (demo # "channels" /\ Printed(Trailer(demo))) =>
              \A id \in 0..(BarrierWorkers(demo) - 1) :
                  /\ Cardinality(WorkerLines(demo, id)) = 1
                  /\ \A i \in WorkerLines(demo, id) : i < Pos(Trailer(demo))

C1_Witness ==
    /\ demo = "goroutines"
    /\ exited
    /\ Printed("All goroutines completed")
    /\ out[3].s = "Worker %d: Processing"
    /\ out[3].a = <<2>>
    /\ ~Printed("Goroutine 1: Hello from goroutine!")

\* The run C1_FixedOutput takes as its reference does occur.
C1_FixedReached == exited /\ demo = "goroutines" /\ SameLines(out, FixedOut(demo))

\* The goroutines C3 names: the two that only print in goroutines(), the
\* one filling a local array, the one incrementing counter.
UnwaitedGoroutines(d) ==
    CASE d = "goroutinesSimple" -> {1, 2}
      [] d = "goroutines" -> {1, 2}
      [] d = "closureAllocationExamples" -> {1}
      [] d = "goroutinePatterns" -> {2}
      [] OTHER -> {}

\* C3 as claimed: when the demonstration returns, each goroutine it
\* started has executed its last statement.
C3_SpawnedComplete ==
    Returned(0) => \A g \in UnwaitedGoroutines(demo) : Returned(g)

----------------------------------------------------------------------------
(* C11: divide(a, b) returns a non-nil error exactly when b == 0; then the *)
(* result is 0, and otherwise the result is the quotient a / b and the     *)
(* error is nil.  This holds for the float64 divide, for the int divide    *)
(* that uses fmt.Errorf and for the int divide that uses CustomError.  The *)
(* int quotient is Go's: truncated toward zero and wrapped to the width of *)
(* int; the float64 quotient is taken without rounding.                    *)

\* q is a / b truncated toward zero: the remainder is smaller than b and
\* has the sign of a
IsTruncatedQuotient(q, a, b) ==
    LET r == a - q * b
    IN Abs(r) < Abs(b) /\ (r = 0 \/ Sgn(r) = Sgn(a))

\* x times b is a, in the rationals
IsRatio(x, a, b) ==
    x.k = "fin" /\ x.s * x.n * b.s * b.n * a.d = a.s * a.n * x.d * b.d

DivideInts == {"divideInt", "divideCustom"}

C11_DivideErrorIffZero ==
    /\ HasReturned("divide") =>
         LET a == ev.in[1]
             b == ev.in[2]
         IN /\ (ev.ret.err.kind # "nil") <=> FIsZero(b)
            /\ FIsZero(b) => ev.ret.val = F(0)
            /\ (a.k = "fin" /\ b.k = "fin" /\ ~FIsZero(b)) => IsRatio(ev.ret.val, a, b)
            /\ (b.k = "nan" \/ (a.k = "nan" /\ ~FIsZero(b))) => ev.ret.val.k = "nan"
    /\ (ev.fn \in DivideInts /\ ev.st = "returned") =>
         LET a == ev.in[1]
             b == ev.in[2]
         IN /\ (ev.ret.err.kind # "nil") <=> (b = 0)
            /\ b = 0 => ev.ret.val = 0
            /\ b # 0 => \E q \in (MinInt - 1)..(MaxInt + 1) :
                           IsTruncatedQuotient(q, a, b) /\ ev.ret.val = Wrap(q)
            /\ ~ev.panic

\* the CustomError divide has returned its error for a zero divisor
C11_Witness ==
    /\ HasReturned("divideCustom")
    /\ ev.in = <<-7, 0>>
    /\ ev.ret = [val |-> 0, err |-> CustomError(400, "division by zero")]

----------------------------------------------------------------------------
(* C12: safeDereference(ptr), processOptionalValue(ptr) and the nilPtr     *)
(* block of pointerSafety() dereference the pointer only on the branch     *)
(* where it is not nil: called with the nil pointer they print their else  *)
(* line and dereference nothing, called with a pointer to a variable they  *)
(* print that variable's value, and none of them panics.                   *)

NilChecking == {"safeDereference", "processOptionalValue", "pointerSafety"}

ThenLine(fn) ==
    CASE fn = "safeDereference" -> "Safe dereference: %d"
      [] fn = "processOptionalValue" -> "Processing value: %d"
      [] fn = "pointerSafety" -> "*nilPtr = %d"

ElseLine(fn) ==
    CASE fn = "safeDereference" -> "Cannot dereference nil pointer"
      [] fn = "processOptionalValue" -> "No value provided"
      [] fn = "pointerSafety" -> "nilPtr is nil, cannot dereference"

C12_NilChecked ==
    (ev.fn \in NilChecking /\ ev.st = "returned") =>
        LET ptr == IF ev.fn = "pointerSafety" THEN Nil ELSE ev.in[1]
            last == ev.out[Len(ev.out)]
        IN /\ ~ev.panic
           /\ \A i \in 1..Len(ev.ret) : ev.ret[i] # Nil
           /\ Len(ev.out) >= 1
           /\ ptr = Nil => ev.ret = <<>> /\ last = Say(ElseLine(ev.fn), <<>>)
           /\ ptr # Nil => /\ ev.ret = <<ptr>>
                           /\ last = Say(ThenLine(ev.fn), <<ev.mem[ptr]>>)

\* safeDereference has been called with the nil pointer and has returned
C12_Witness ==
    /\ HasReturned("safeDereference")
    /\ ev.in = <<Nil>>
    /\ ev.out = <<Say("Cannot dereference nil pointer", <<>>)>>

----------------------------------------------------------------------------
(* C13: a parameter or receiver passed by value is a copy.  After          *)
(* modifyValueCopy(x) the caller's x is what it was; after the value       *)
(* version of movePoint(p, dx, dy) the caller's p is what it was; after    *)
(* c.DoubleRadius() the caller's c has the radius it had and the circle    *)
(* returned has twice that radius.                                         *)

ByValue == {"modifyValueCopy", "movePoint", "DoubleRadius"}

\* y is twice x on float64
IsDouble(y, x) ==
    IF x.k = "fin"
    THEN y.k = "fin" /\ y.s = x.s /\ y.n * x.d = 2 * x.n * y.d
    ELSE y = x

C13_ByValueCopy ==
    (ev.fn \in ByValue /\ ev.st = "returned") =>
        /\ ev.mem = ev.in.m0
        /\ ev.fn = "DoubleRadius" =>
              /\ ev.mem[ev.in.x].Radius = ev.in.m0[ev.in.x].Radius
              /\ IsDouble(ev.ret.Radius, ev.in.m0[ev.in.x].Radius)

\* movePoint has moved its copy of a point and has returned
C13_Witness ==
    /\ HasReturned("movePoint")
    /\ ev.in.m0 = <<[X |-> 0, Y |-> 2]>>
    /\ ev.in.dx = 2
    /\ ev.in.dy = -1
    /\ ev.ret = [X |-> 2, Y |-> 1]

----------------------------------------------------------------------------
(* C14: mapInts(numbers, fn) returns a new slice as long as numbers whose  *)
(* element i is fn(numbers[i]), and leaves numbers as it was; this holds   *)
(* for the empty slice too.                                                *)

\* the elements of the argument slice when the call was made
ArgElems == Elems(ev.in.m0, ev.in.s)

\* every array the caller had holds what it held
CallerUnchanged == \A a \in 1..Len(ev.in.m0) : ev.mem[a] = ev.in.m0[a]

C14_MapInts ==
    HasReturned("mapInts") =>
        /\ ev.ret.len = ev.in.s.len
        /\ \A i \in 1..ev.in.s.len :
              ev.mem[ev.ret.arr][i] = Apply(ev.in.fn, ArgElems[i])
        /\ ev.ret.arr \notin 1..Len(ev.in.m0)
        /\ CallerUnchanged

\* mapInts has squared the elements of a slice of two
C14_Witness ==
    /\ HasReturned("mapInts")
    /\ ev.in.fn = "square"
    /\ ArgElems = <<2, -3>>
    /\ Elems(ev.mem, ev.ret) = <<4, 9>>

(* C15: filterInts(numbers, pred) returns the elements of numbers that     *)
(* satisfy pred, in their order and as often as they occur, and leaves     *)
(* numbers as it was; the result is empty when no element satisfies pred.  *)

Satisfies(x) == Pred(ev.in.fn, x)

C15_FilterInts ==
    HasReturned("filterInts") =>
        /\ Elems(ev.mem, ev.ret) = SelectSeq(ArgElems, Satisfies)
        /\ (\A i \in 1..Len(ArgElems) : ~Satisfies(ArgElems[i])) => ev.ret.len = 0
        /\ CallerUnchanged

\* filterInts has kept the even elements, one of them twice, and dropped
\* the odd one between them
C15_Witness ==
    /\ HasReturned("filterInts")
    /\ ev.in.fn = "even"
    /\ ArgElems = <<6, -3, 6>>
    /\ Elems(ev.mem, ev.ret) = <<6, 6>>

(* C16: reduceInts(numbers, initial, fn) is a left fold,                   *)
(* fn(...fn(fn(initial, numbers[0]), numbers[1])..., numbers[n-1]), and is *)
(* initial for the empty slice; the chain map(x*2), filter(x>5),           *)
(* reduce(+, 0) over [1,2,3,4,5] in higherOrderFunctions prints 24.        *)

RECURSIVE FoldLeft(_, _, _)
FoldLeft(seq, initial, fn) ==
    IF seq = <<>> THEN initial
    ELSE Apply2(fn, FoldLeft(SubSeq(seq, 1, Len(seq) - 1), initial, fn), seq[Len(seq)])

C16_ReduceLeftFold ==
    /\ HasReturned("reduceInts") =>
          /\ ev.ret = FoldLeft(ArgElems, ev.in.init, ev.in.fn)
          /\ ev.in.s.len = 0 => ev.ret = ev.in.init
    /\ HasReturned("higherOrderFunctions") =>
          /\ ~ev.panic
          /\ ev.out[Len(ev.out)] = Say("Chain result: %d", <<24>>)

\* reduceInts has subtracted 2 and then 6 from 1
C16_Witness ==
    /\ HasReturned("reduceInts")
    /\ ev.in.fn = "sub"
    /\ ev.in.init = 1
    /\ ArgElems = <<2, 6>>
    /\ ev.ret = -7

----------------------------------------------------------------------------
(* C17: the closures that makeFunctions() creates in its loop each capture *)
(* the variable of their own iteration: makeFunctions() returns exactly 5  *)
(* functions and the one at index i returns i*i, for i = 0..4, so that     *)
(* closures() prints Function i: i*i for each of them.                     *)

C17_OwnLoopVariable ==
    HasReturned("makeFunctions") =>
        /\ Len(ev.ret) = 5
        /\ \A k \in 1..Len(ev.ret) :
              callFunction(ev.mem, ev.ret[k]) = (k - 1) * (k - 1)
        /\ \A j \in 1..Len(ev.out) :
              ev.out[j] = Say("Function %d: %d", <<j - 1, (j - 1) * (j - 1)>>)

\* all five functions have been called; the last one returned 16
C17_Witness ==
    /\ HasReturned("makeFunctions")
    /\ Len(ev.out) = 5
    /\ ev.out[5] = Say("Function %d: %d", <<4, 16>>)

(* C18: factorial(n) terminates for every n, the base case n <= 1 ending   *)
(* the recursion: it recurses no deeper than n frames (one frame for       *)
(* n <= 1), can always take its next step until it has returned, and takes *)
(* at most 2n+1 steps.  It returns 1 for n <= 1, negative n included, and  *)
(* 1*2*...*n for n >= 1.                                                   *)

AtLeast1(n) == IF n < 1 THEN 1 ELSE n

\* k * (k+1) * ... * n
RECURSIVE Product(_, _)
Product(k, n) == IF k > n THEN 1 ELSE k * Product(k + 1, n)

C18_FactorialTerminates ==
    ev.fn = "factorial" =>
        LET n == ev.in[1]
        IN /\ Len(ev.stack) <= AtLeast1(n)
           /\ ev.steps <= 2 * AtLeast1(n) + 1
           /\ ev.st # "returned" => ENABLED (FactorialCall \/ FactorialReturn)
           /\ ev.st = "returned" =>
                 ev.ret = IF n <= 1 THEN 1 ELSE Product(1, n)

\* factorial(5) has returned 120
C18_Witness ==
    /\ HasReturned("factorial")
    /\ ev.in = <<5>>
    /\ ev.ret = 120

(* C19: fibonacci(n) terminates for every n: it recurses no deeper than n  *)
(* frames, can always take its next step until it has returned, and the    *)
(* number of its steps is bounded.  For n >= 0 it returns the n-th         *)
(* Fibonacci number (F(0) = 0, F(1) = 1, F(k) = F(k-1) + F(k-2)); for      *)
(* n < 0 it returns n.                                                     *)

\* F(i + k), given a = F(i) and b = F(i + 1)
RECURSIVE FibIter(_, _, _)
FibIter(k, a, b) == IF k = 0 THEN a ELSE FibIter(k - 1, b, a + b)
Fib(n) == FibIter(n, 0, 1)

\* the steps of fibonacci(n): one for a call that returns at once, three
\* for a call that recurses, one to return to the caller
FibSteps(n) == IF n <= 1 THEN 2 ELSE 4 * Fib(n + 1) - 2

C19_Fibonacci ==
    ev.fn = "fibonacci" =>
        LET n == ev.in[1]
        IN /\ Len(ev.stack) <= AtLeast1(n)
           /\ ev.steps <= FibSteps(n)
           /\ ev.st # "returned" => ENABLED (FibonacciCall \/ FibonacciReturn)
           /\ ev.st = "returned" =>
                 ev.ret = IF n < 0 THEN n ELSE Fib(n)

\* fibonacci(10) has returned 55
C19_Witness ==
    /\ HasReturned("fibonacci")
    /\ ev.in = <<10>>
    /\ ev.ret = 55

----------------------------------------------------------------------------
(* C20: a deferred call runs only when the function that deferred it       *)
(* returns, after the whole body and the calls the body makes.             *)
(* deferStatements() prints Start and End, then the output of              *)
(* deferExample() (start, middle, end) and of deferWithParameters()        *)
(* (current value, deferred value), and only then Deferred 3, Deferred 2,  *)
(* Deferred 1; in deferExample() the deferred "Defer example end" comes    *)
(* after "Defer example middle".  While a deferred call of                 *)
(* deferStatements() runs, its frame is the only one and its body is done. *)

DeferOrder ==
    << "9. DEFER STATEMENTS:", "Start", "End",
       "Defer example start", "Defer example middle", "Defer example end",
       "Current value: %d", "Deferred value: %d",
       "Deferred 3", "Deferred 2", "Deferred 1" >>

C20_DeferredAtReturn ==
    demo = "deferStatements" =>
        /\ IsPrefix(Tags(out), DeferOrder)
        /\ Returned(0) => Tags(out) = DeferOrder
        /\ Printed("Defer example end") => Before("Defer example middle", "Defer example end")
        /\ (\E i \in 1..Len(Registered) : Printed(Registered[i])) =>
              /\ Len(frames[0]) <= 1
              /\ \A i \in 1..Len(frames[0]) :
                    frames[0][i].fn = "deferStatements" /\ ~InBody(frames[0][i])

\* the first deferred call of deferStatements has just run, after the output
\* of the two functions it called; two deferred calls are still to run
C20_Witness ==
    /\ demo = "deferStatements"
    /\ Tags(out) = SubSeq(DeferOrder, 1, 9)
    /\ Len(frames[0]) = 1
    /\ Len(frames[0][1].defers) = 2

----------------------------------------------------------------------------
(* C21: goroutines() makes exactly three receives on the unbuffered done   *)
(* channel, one for the send of each of the three workers started with the *)
(* ids 0, 1, 2.  "All goroutines completed" is printed only when all three *)
(* receives are done, that is after each worker has printed its "Worker    *)
(* id: Processing" line.  A worker waits on done only while the caller has *)
(* a receive on done still to make, every receive made has let one worker  *)
(* finish, and all three workers have finished when the caller returns: no *)
(* worker stays blocked on done.                                           *)

\* the receives on done in the body of goroutines()
DonePcs == {i \in 1..Len(goroutines) : goroutines[i].op = "recv" /\ goroutines[i].ch = "done"}

\* the statement the caller is at (past the end once it has returned)
MainPc == IF frames[0] = <<>> THEN Len(Code(demo, 0)) + 1 ELSE frames[0][1].pc

\* the receives on done the caller has completed
DoneReceived == Cardinality({i \in DonePcs : i < MainPc})

\* the goroutines started by the worker loop, and those whose send is done
DoneSenders ==
    {g \in Workers : \E i \in 1..Len(goroutines) :
        /\ goroutines[i].op = "go"
        /\ goroutines[i].g = g
        /\ goroutines[i].fn = "goroutines_func4"}
DoneSent == Cardinality({g \in DoneSenders : Returned(g)})

C21_DoneBarrier ==
    demo = "goroutines" =>
        /\ Cardinality(DonePcs) = 3
        /\ chans["done"].buf = <<>>
        /\ DoneReceived = DoneSent
        /\ \A g \in DoneSenders :
              ParkedOn(g, "done") =>
                  /\ ~Returned(0)
                  /\ \E i \in DonePcs : MainPc <= i
        /\ Printed("All goroutines completed") =>
              /\ DoneReceived = 3
              /\ \A id \in 0..2 :
                    /\ Cardinality(WorkerLines(demo, id)) = 1
                    /\ \A i \in WorkerLines(demo, id) :
                          i < Pos("All goroutines completed")
        /\ Returned(0) =>
              /\ Cardinality(DoneSenders) = 3
              /\ \A g \in DoneSenders : Returned(g)
              /\ chans["done"].sendq = <<>>

\* two workers wait on done after the caller has received from the third
C21_Witness ==
    /\ demo = "goroutines"
    /\ DoneReceived = 1
    /\ Len(chans["done"].sendq) = 2
    /\ DoneSent = 1

----------------------------------------------------------------------------
(* C22: in channels(), ch3 (capacity 2) is sent 1 and 2 and then closed;   *)
(* the three receives that follow return (1, true), (2, true) and          *)
(* (0, false) in that order: a closed channel is drained first and yields  *)
(* the zero value with ok = false afterwards.  Nothing in this block       *)
(* blocks: no goroutine ever waits on ch3, as sender or as receiver.       *)

IsClosedRecvLine(l) == l.s = "Received: %d, ok: %t"
ClosedRecvs ==
    [i \in 1..Len(SelectSeq(out, IsClosedRecvLine)) |->
        SelectSeq(out, IsClosedRecvLine)[i].a]

C22_ClosedChannelDrains ==
    demo = "channels" =>
        /\ IsPrefix(ClosedRecvs, << <<1, TRUE>>, <<2, TRUE>>, <<0, FALSE>> >>)
        /\ Returned(0) => Len(ClosedRecvs) = 3
        /\ chans["ch3"].sendq = <<>>
        /\ chans["ch3"].recvq = <<>>
        /\ Len(chans["ch3"].buf) <= 2
        /\ IsPrefix(chans["ch3"].buf, <<1, 2>>) \/ chans["ch3"].buf = <<2>>

\* the third receive has returned the zero value from the closed, drained
\* channel and its line has been printed
C22_Witness ==
    /\ demo = "channels"
    /\ ClosedRecvs = << <<1, TRUE>>, <<2, TRUE>>, <<0, FALSE>> >>
    /\ chans["ch3"].closed
    /\ chans["ch3"].buf = <<>>
    /\ mem["val7"] = 0
    /\ mem["ok"] = FALSE

----------------------------------------------------------------------------
(* C23: the select of channels() has a default case, so it never blocks,   *)
(* and it completes at most one receive: it prints exactly one of          *)
(* "Received from ch4: 1", "Received from ch5: 2" and "No value ready".    *)
(* At least one of the two goroutines that send on the unbuffered ch4 and  *)
(* ch5 is therefore never received from.                                   *)

\* the goroutine started by channels() whose first statement sends on c
SenderOn(c) ==
    CHOOSE g \in G : \E i \in 1..Len(channels) :
        /\ channels[i].op = "go"
        /\ channels[i].g = g
        /\ Code(channels[i].fn, 0)[1].op = "send"
        /\ Code(channels[i].fn, 0)[1].ch = c

SelectSenders == {SenderOn("ch4"), SenderOn("ch5")}

SelectPc == CHOOSE i \in 1..Len(channels) : channels[i].op = "select"
PastSelect == demo = "channels" /\ MainPc > SelectPc

IsSelectLine(l) == \E r \in SelectLines : l.s = r.s
SelectOutcome == SelectSeq(out, IsSelectLine)

\* g waits to send on ch4 or ch5
BlockedOnSend(g) == ParkedOn(g, "ch4") \/ ParkedOn(g, "ch5")

\* C23 as claimed: once the select is over, one of the two senders is blocked
\* on its send.
C23_SenderBlocked ==
    PastSelect => \E g \in SelectSenders : BlockedOnSend(g)

C23_SelectState ==
    demo = "channels" =>
        /\ chans["ch4"].recvq = <<>>
        /\ chans["ch5"].recvq = <<>>
        /\ chans["ch4"].buf = <<>>
        /\ chans["ch5"].buf = <<>>
        /\ Len(SelectOutcome) <= 1
        /\ \A i \in 1..Len(SelectOutcome) :
              \E r \in SelectLines : SameLine(SelectOutcome[i], r)
        /\ Returned(0) => Len(SelectOutcome) = 1
        /\ Cardinality({g \in SelectSenders : Returned(g)}) <= 1
        /\ ~PastSelect => \A g \in SelectSenders : ~Returned(g)
        /\ Printed("Received from ch4: %d") => Returned(SenderOn("ch4"))
        /\ Printed("Received from ch5: %d") => Returned(SenderOn("ch5"))
        /\ Printed("No value ready") => \A g \in SelectSenders : ~Returned(g)
        /\ PastSelect =>
              \E g \in SelectSenders :
                  /\ g \in spawned
                  /\ ~Returned(g)
                  /\ BlockedOnSend(g) \/ Cur(g).op = "send"

\* once the select is over, a sender that has not been received from is
\* never received from, and a sender that waits keeps waiting
C23_SelectStep ==
    PastSelect =>
        \A g \in SelectSenders :
            /\ ~Returned(g) => ~Returned(g)'
            /\ BlockedOnSend(g) => BlockedOnSend(g)'

\* C23 as amended: the select never blocks and has exactly one of its three
\* outcomes; at least one sender is never received from: it waits on its
\* send, from then on for ever, or has not yet reached its send.
C23_SelectOnce == []C23_SelectState /\ [][C23_SelectStep]_vars

\* the select has found the sender on ch5 waiting and has received from it
\* before the sender on ch4 has run; that one is not blocked, and never
\* received from
C23_Witness ==
    /\ demo = "channels"
    /\ Returned(0)
    /\ Printed("Received from ch5: %d")
    /\ Returned(SenderOn("ch5"))
    /\ ~BlockedOnSend(SenderOn("ch4"))
    /\ ~Returned(SenderOn("ch4"))

\* The key and the value a call of the history writes: storeInMap writes the
\* decimal numeral of its argument under "value".
Decimal(n) ==
    CASE n = -7  -> "-7"
      [] n = 0   -> "0"
      [] n = 42  -> "42"
      [] n = 200 -> "200"

WrittenKey(c) == IF c.fn = "storeInMap" THEN "value" ELSE c.key
WrittenValue(c) == IF c.fn = "storeInMap" THEN Decimal(c.int) ELSE c.str

\* The stores of the program's run: heapAllocationExamples calls
\* storeInMap(200), and later globalVariableExamples calls
\* storeInGlobalMap("key", "value").
ProgramStores ==
    << [fn |-> "storeInMap", key |-> "", str |-> "", int |-> 200, made |-> 1],
       [fn |-> "storeInGlobalMap", key |-> "key", str |-> "value", int |-> 0, made |-> 0] >>

\* C24: globalMap is lazily initialised and never written while nil. Before
\* the first call it is nil and no map was made; after any sequence of
\* storeInMap and storeInGlobalMap calls no call has panicked, globalMap is
\* non-nil, exactly one map was made and the first call made it, the keys of
\* the map are the keys the calls wrote, and every key holds the value of the
\* last call that wrote it (so an entry of an earlier call is present unless a
\* later call wrote the same key). After the stores of the program's run the
\* map holds exactly "value" -> "200" and "key" -> "value".
C24_GlobalMapLazyInit ==
    LET cs == mapHist.calls IN
    /\ ~mapHist.panic
    /\ cs = <<>> => globalMap.nil /\ mapHist.allocs = 0 /\ DOMAIN globalMap.kv = {}
    /\ cs # <<>> =>
        /\ ~globalMap.nil
        /\ mapHist.allocs = 1
        /\ \A i \in 1..Len(cs) : cs[i].made = (IF i = 1 THEN 1 ELSE 0)
        /\ DOMAIN globalMap.kv = {WrittenKey(cs[i]) : i \in 1..Len(cs)}
        /\ \A i \in 1..Len(cs) :
              (\A j \in (i+1)..Len(cs) : WrittenKey(cs[j]) # WrittenKey(cs[i]))
                  => globalMap.kv[WrittenKey(cs[i])] = WrittenValue(cs[i])
    /\ cs = ProgramStores =>
        /\ DOMAIN globalMap.kv = {"value", "key"}
        /\ globalMap.kv["value"] = "200"
        /\ globalMap.kv["key"] = "value"

\* The program's run has made its two stores, and the map holds both entries.
C24_Witness ==
    /\ mapHist.calls = ProgramStores
    /\ mapHist.allocs = 1
    /\ ~globalMap.nil
    /\ globalMap.kv["value"] = "200"
    /\ globalMap.kv["key"] = "value"

============================================================================
